---- MODULE Spec2Model ----
(***************************************************************************)
(* Inventory reconciliation: e-mail -> extraction -> completeness gate ->  *)
(* ledger store (Airtable) -> accounting backend (Zoho).                   *)
(*                                                                         *)
(* The module holds one state machine per component, each with its own     *)
(* specification over the same variables:                                  *)
(*   SpecPosting  ZohoClient.process_complete_data and what it calls       *)
(*   SpecLedger   AirtableClient.process_transaction and what it calls     *)
(*   SpecGate     EmailParser._validate_completeness on cleaned data       *)
(*   Spec         InventoryReconciliationApp.run_once, cycle after cycle   *)
(*   SpecReview   the transaction handlers and the review queue of the     *)
(*                application, called directly                             *)
(*   SpecDegraded the posting workflows, and a complete transaction that   *)
(*                arrives after the client has run one                     *)
(*   SpecEndToEnd _process_complete_transaction from the ledger update to  *)
(*                the end of _execute_zoho_workflow                        *)
(*   SpecAnnounced   the e-mails of a cycle and the transaction handlers,  *)
(*                each followed to its notification                        *)
(*   SpecInterrupted a complete transaction with a KeyboardInterrupt       *)
(*                raised at any point of its handling                      *)
(*   SpecRequest  ZohoClient._make_api_request, call after call            *)
(*   SpecMailbox  run_once over a mailbox whose owner removes e-mails      *)
(*   SpecNotifier DiscordNotifier._send_embed, call after call             *)
(*   SpecConstruct ZohoClient.__init__ and the first workflow asked of     *)
(*                the client                                               *)
(*   SpecHandOver _process_complete_transaction from its call of           *)
(*                process_transaction to its call of the posting workflow  *)
(* A specification leaves the variables it does not step at their initial  *)
(* value.                                                                  *)
(***************************************************************************)
EXTENDS Integers, Sequences, FiniteSets, TLC

VARIABLES
    \* ---- ZohoClient (src/src/zoho_client.py) ----
    is_available,   \* self.is_available
    config,         \* the four auto_* feature flags read in __init__
    cache,          \* self._cache: vendors, customers, items (key -> id)
    zpc,            \* position inside process_complete_data
    zdata,          \* clean_data of the invocation in progress
    zidx,           \* index of the line item the item loop is at
    zlocal,         \* locals of the workflow: processed_items, total_revenue
    zresult,        \* the result dict of the invocation
    http_log,       \* HTTP requests sent to the backend by this invocation
    n401,           \* API calls answered 401 so far (bounded)
    zruns,          \* invocations started so far (bounded)
    create_calls,   \* the contacts and items the client asked the backend
                    \* to create so far, one entry per create call
    api_call,       \* the last call of _make_api_request made on its own:
                    \* its arguments and what it did
    embed_call,     \* the last call of DiscordNotifier._send_embed made on
                    \* its own: the client's settings, the sink's answers
                    \* and what the call did
    \* ---- the mailbox (IMAP server) and the calls of process_email ----
    expunged,       \* arrival numbers of the e-mails removed from the mailbox
    handed,         \* arrival numbers of the e-mails handed to
                    \* process_email, one entry per call
    \* ---- AirtableClient (src/src/airtable_client.py) ----
    inventory,      \* the inventory table: records <<sku, name, quantity>>,
                    \* a record's id is its position
    transactions,   \* the purchases / sales tables: records written
    lpc,            \* position inside process_transaction
    ldata,          \* the data argument of the invocation in progress
    lidx,           \* index of the line item the item loop is at
    lresult,        \* the result dict of the invocation
    resolutions,    \* what _find_or_create_inventory_item returned so far
    quantity_writes,\* the quantities PATCHed into inventory records so far
    lfaults,        \* ledger-store requests that failed so far (bounded)
    lruns,          \* invocations started so far (bounded)
    \* ---- EmailParser (src/src/openai_parser.py) ----
    gpc,            \* "parsed": data cleaned, gate not run; "validated"
    gdata,          \* the data dict (the gate changes it in place)
    gresult,        \* the ParseResult of the last run of the gate
    gbefore,        \* missing_fields of the run before the last change
    gsupplied,      \* the field supplied since that run
    gsupplies,      \* changes made to the data so far (bounded)
    \* ---- InventoryReconciliationApp (src/main.py) ----
    emails,         \* every e-mail that arrived, in the order of arrival
    unread,         \* arrival numbers of the e-mails still unread in the
                    \* mailbox
    rpc,            \* position inside run_once
    new_emails,     \* the list run_once fetched
    ridx,           \* index of the e-mail the loop of run_once is at
    processed_seq_nums, \* self.processed_seq_nums
    pending_reviews,\* self.pending_reviews: record id -> review data
    stats,          \* self.stats (the counters used below)
    notifications,  \* titles of the notifications sent, in order
    zoho_calls,     \* clean_data of every call of zoho.process_complete_data
    routed,         \* seq_num -> the branch process_email ended in
    cycles,         \* runs of run_once started so far (bounded)
    review_checked, \* ids a review pass met after their record was resolved
    direct_calls    \* direct calls of the transaction handlers (bounded)

postingVars == <<is_available, config, cache, zpc, zdata, zidx, zlocal,
                 zresult, http_log, create_calls, n401, zruns>>

ledgerVars == <<inventory, transactions, lpc, ldata, lidx, lresult,
                resolutions, quantity_writes, lfaults, lruns>>

gateVars == <<gpc, gdata, gresult, gbefore, gsupplied, gsupplies>>

appVars == <<emails, unread, rpc, new_emails, ridx, processed_seq_nums,
             pending_reviews, stats, notifications, zoho_calls, routed,
             cycles, review_checked, direct_calls>>

auxVars == <<api_call, embed_call, expunged, handed>>

vars == <<postingVars, ledgerVars, gateVars, appVars, auxVars>>

\* the variables a step of the accounting client leaves alone
outsidePosting == <<ledgerVars, gateVars, appVars, auxVars>>
\* the variables a step of the ledger client leaves alone
outsideLedger == <<postingVars, gateVars, appVars, auxVars>>
\* the variables a step of the parser leaves alone
outsideGate == <<postingVars, ledgerVars, appVars, auxVars>>

None == "None"

\* ------------------------------------------------------------- bounds
MaxItems == 2        \* line items per transaction
MaxWorkflows == 2    \* invocations of process_complete_data per run
Max401 == 1          \* API calls whose first answer is 401, per invocation
MaxTransactions == 2 \* invocations of process_transaction per run
MaxFaults == 2       \* ledger-store requests that fail, per run
MaxSupplies == 1     \* fields supplied to one transaction after its extraction
MaxEmails == 2       \* e-mails that arrive in a run
MaxCycles == 2       \* polling cycles in a run
MaxDirectCalls == 2  \* direct calls of the transaction handlers in a run
MaxLaterTransactions == 1 \* transactions handled between workflows, per run
MaxEndToEnd == 2     \* complete transactions handled end to end, per run
MaxAnnounced == 2    \* e-mails and direct handler calls of a run, together
MaxAnswers == 3      \* answers the backend has ready for the requests of a call

\* ------------------------------------------------------- small helpers
Max(a, b) == IF a >= b THEN a ELSE b

RECURSIVE Reverse(_)
Reverse(s) == IF s = <<>> THEN <<>> ELSE Append(Reverse(Tail(s)), Head(s))

RECURSIVE SelectSeqBy(_, _)
\* the subsequence of s whose elements are in the set keep
SelectSeqBy(s, keep) ==
    IF s = <<>> THEN <<>>
    ELSE IF Head(s) \in keep THEN <<Head(s)>> \o SelectSeqBy(Tail(s), keep)
         ELSE SelectSeqBy(Tail(s), keep)

\* Op applied to the value of v, v being evaluated once
With(v, Op(_)) == CHOOSE y \in {Op(x) : x \in {v}} : TRUE

SeqsUpTo(S, n) == UNION {[1..k -> S] : k \in 0..n}

(***************************************************************************)
(* The accounting backend's HTTP layer.                                    *)
(***************************************************************************)
\* What one HTTP request can be answered with.  "malformed" is a 2xx answer
\* whose JSON body lacks the object the caller reads (the caller's .get chain
\* or subscript then raises); "network" is a connection error or a timeout.
Responses == {"ok", "malformed", "http_error", "unauthorized", "network"}

\* The answers to the HTTP requests of one _make_api_request call: one
\* answer, or a 401 followed by the answer to the single retry.
Scripts(budget) ==
    {<<r>> : r \in Responses \ {"unauthorized"}}
        \cup (IF budget > 0 THEN {<<"unauthorized", r>> : r \in Responses} ELSE {})

Used401(script) == IF Len(script) = 2 THEN 1 ELSE 0

\* The exception raise_for_status / requests.request ends with, by answer.
ExceptionOf(response) ==
    CASE response = "http_error"   -> "HTTPError"
      [] response = "unauthorized" -> "HTTPError"
      [] response = "network"      -> "ConnectionError"
      [] OTHER                     -> None

\* except (ConnectionError, Timeout, OSError): requests' RequestException
\* derives from IOError, which is OSError, so HTTPError is caught here too
\* and the HTTPError clause below it is never reached.
IsOSError(exc) == exc \in {"ConnectionError", "HTTPError"}

ApiCall_KeepsAvailable(avail, method, target, script) ==
    IF ~avail
    THEN [exc |-> "Unavailable", body |-> None, avail |-> avail, sent |-> <<>>]
    ELSE LET last == script[Len(script)]
             exc  == ExceptionOf(last)
         IN [exc   |-> exc,
             body  |-> IF exc = None THEN last ELSE None,
             avail |-> avail,
             sent  |-> [k \in 1..Len(script) |->
                          [method |-> method, target |-> target,
                           response |-> script[k]]]]

\* _make_api_request(method, endpoint): exc is the exception it raises
\* (None when it returns), body the usability of the JSON it returns, avail
\* the value of is_available afterwards, sent the HTTP requests it sent.
ApiCall(avail, method, target, script) ==
    IF ~avail
    THEN [exc |-> "Unavailable", body |-> None, avail |-> avail, sent |-> <<>>]
    ELSE LET last == script[Len(script)]
             exc  == ExceptionOf(last)
         IN [exc   |-> exc,
             body  |-> IF exc = None THEN last ELSE None,
             avail |-> IF IsOSError(exc) THEN FALSE ELSE avail,
             sent  |-> [k \in 1..Len(script) |->
                          [method |-> method, target |-> target,
                           response |-> script[k]]]]

RECURSIVE MakeApiRequest(_, _, _, _, _)
MakeApiRequest_RetriesHttpError(avail, method, target, answers, retry) ==
    IF ~avail
    THEN [exc |-> "Unavailable", body |-> None, avail |-> avail,
          sent |-> <<>>, refreshes |-> 0]
    ELSE LET response == Head(answers)
             request == [method |-> method, target |-> target,
                         response |-> response]
         IN IF response \in {"unauthorized", "http_error"} /\ retry
            THEN LET again == MakeApiRequest(avail, method, target,
                                             Tail(answers), FALSE)
                 IN [again EXCEPT
                       !.sent = <<request>> \o @,
                       !.refreshes = @ + 1,
                       !.avail = IF IsOSError(again.exc) THEN FALSE ELSE @]
            ELSE LET exc == ExceptionOf(response)
                 IN [exc   |-> exc,
                     body  |-> IF exc = None THEN response ELSE None,
                     avail |-> IF IsOSError(exc) THEN FALSE ELSE avail,
                     sent  |-> <<request>>,
                     refreshes |-> 0]

\* _make_api_request(method, endpoint, retry=retry) as the code runs it;
\* answers[k] is what the backend answers to the k-th request it receives.
\* A 401 with retry set refreshes the token (a request to the OAuth server,
\* counted in refreshes; its result is ignored) and calls the method again
\* with retry=False; an exception of the inner call passes through the
\* except clauses of the outer one.
MakeApiRequest(avail, method, target, answers, retry) ==
    IF ~avail
    THEN [exc |-> "Unavailable", body |-> None, avail |-> avail,
          sent |-> <<>>, refreshes |-> 0]
    ELSE LET response == Head(answers)
             request == [method |-> method, target |-> target,
                         response |-> response]
         IN IF response = "unauthorized" /\ retry
            THEN LET again == MakeApiRequest(avail, method, target,
                                             Tail(answers), FALSE)
                 IN [again EXCEPT
                       !.sent = <<request>> \o @,
                       !.refreshes = @ + 1,
                       !.avail = IF IsOSError(again.exc) THEN FALSE ELSE @]
            ELSE LET exc == ExceptionOf(response)
                 IN [exc   |-> exc,
                     body  |-> IF exc = None THEN response ELSE None,
                     avail |-> IF IsOSError(exc) THEN FALSE ELSE avail,
                     sent  |-> <<request>>,
                     refreshes |-> 0]

Methods == {"GET", "POST", "DELETE"}
Endpoints == {"contacts", "items", "order"}

NoCall == [made |-> FALSE]

\* a caller calls _make_api_request(method, endpoint), retry defaulted
IssueApiRequest ==
    /\ \E method \in Methods, target \in Endpoints,
          answers \in [1..MaxAnswers -> Responses] :
         LET r == MakeApiRequest(is_available, method, target, answers, TRUE)
         IN /\ api_call' = [made |-> TRUE, available |-> is_available,
                            method |-> method, target |-> target,
                            answers |-> answers, exc |-> r.exc,
                            body |-> r.body, sent |-> r.sent,
                            refreshes |-> r.refreshes]
            /\ is_available' = r.avail
    /\ UNCHANGED <<config, cache, zpc, zdata, zidx, zlocal, zresult, http_log,
                   create_calls, n401, zruns>>
    /\ UNCHANGED <<ledgerVars, gateVars, appVars, embed_call, expunged,
                   handed>>

\* ZohoClient.__init__ from `# Initialize connection` on, is_available
\* having been set to False above: with a refreshed token test_connection
\* calls _make_api_request('GET', 'settings/taxes') and turns its exception
\* into False
Construct ==
    /\ ~api_call.made
    /\ zruns = 0 /\ zpc = "idle"
    /\ \E refresh_ok \in BOOLEAN, answers \in [1..MaxAnswers -> Responses] :
         LET r == MakeApiRequest(is_available, "GET", "settings/taxes",
                                 answers, TRUE)
             test_connection == r.exc = None
         IN /\ api_call' = [made |-> TRUE, refresh_ok |-> refresh_ok,
                            answers |-> answers,
                            exc |-> IF refresh_ok THEN r.exc ELSE None,
                            sent |-> IF refresh_ok THEN r.sent ELSE <<>>]
            /\ is_available' = IF refresh_ok THEN test_connection
                               ELSE is_available
    /\ UNCHANGED <<config, cache, zpc, zdata, zidx, zlocal, zresult, http_log,
                   create_calls, n401, zruns>>
    /\ UNCHANGED <<ledgerVars, gateVars, appVars, embed_call, expunged,
                   handed>>

AuxAtRest ==
    api_call = NoCall /\ embed_call = NoCall /\ expunged = {} /\ handed = <<>>

\* C31: one call of _make_api_request sends at most two requests to the
\* backend, the second only after the first was answered 401 and the token
\* refreshed once, both the same request; any other answer ends the call,
\* and a 401 to the first request is followed by the second.  The answers
\* a call consumes are the scripts the workflows' calls are given.
C31_AtMostOneRetry ==
    api_call.made =>
        LET sent == api_call.sent
            consumed == [k \in 1..Len(sent) |-> sent[k].response]
        IN /\ Len(sent) <= 2
           /\ api_call.refreshes = Len(sent) - (IF sent = <<>> THEN 0 ELSE 1)
           /\ \A k \in 1..Len(sent) :
                 /\ sent[k].method = api_call.method
                 /\ sent[k].target = api_call.target
                 /\ sent[k].response = api_call.answers[k]
           /\ Len(sent) = 2 <=> (api_call.available
                                 /\ api_call.answers[1] = "unauthorized")
           /\ api_call.available
                => /\ consumed \in Scripts(1)
                   /\ LET r == ApiCall(TRUE, api_call.method,
                                       api_call.target, consumed)
                      IN /\ r.exc = api_call.exc
                         /\ r.body = api_call.body
                         /\ r.sent = sent
                         /\ r.avail = is_available

\* a call whose first request was answered 401 and whose retry succeeded,
\* the backend having a third answer ready
C31_RetriedOnce ==
    /\ api_call.made
    /\ api_call.answers = <<"unauthorized", "ok", "ok">>
    /\ Len(api_call.sent) = 2
    /\ api_call.exc = None

(***************************************************************************)
(* ZohoClient: inputs of process_complete_data.                            *)
(***************************************************************************)
TransactionTypes == {"purchase", "sale"}

\* vendor_name / channel as they arrive in clean_data
VendorNames == {"Acme", " Acme "}
ChannelNames == {"ebay", "eBay store"}

\* _standardize_vendor_name on VendorNames: strip(), then the first keyword
\* of the table contained in the lower-cased name replaces the whole name.
StandardizeVendorName(name) ==
    CASE name = None -> "Unknown Vendor"
      [] name \in {"Acme", " Acme "} -> "Acme"
      [] name \in {"ebay", "eBay store"} -> "eBay"
      [] OTHER -> name

\* _standardize_channel_name on ChannelNames
StandardizeChannelName(name) ==
    CASE name = None -> "Direct Sales"
      [] name \in {"ebay", "eBay store"} -> "eBay Sales"
      [] OTHER -> name

\* line items of clean_data: sku, name, quantity, unit_price / sale_price
PostingItemPool ==
    { [sku |-> "W1", name |-> "Widget", quantity |-> 2, price |-> 3],
      [sku |-> None, name |-> "Gizmo",  quantity |-> 1, price |-> 2] }

CleanData ==
    {[type |-> t, contact |-> c, items |-> it] :
        t \in TransactionTypes,
        c \in VendorNames \cup ChannelNames,
        it \in SeqsUpTo(PostingItemPool, MaxItems)}

\* a purchase names a vendor, a sale a channel; a transaction that reached
\* the posting has at least one line item
ValidCleanData ==
    {d \in CleanData :
        /\ d.contact \in (IF d.type = "purchase" THEN VendorNames ELSE ChannelNames)
        /\ d.items # <<>>}

\* cost rates the backend may report for an item (get_item_details 'rate')
BackendRates == {0, 4}

EmptyResult ==
    [success |-> FALSE, order_id |-> None, bill_id |-> None,
     invoice_id |-> None, shipment_id |-> None, items_processed |-> <<>>,
     revenue |-> 0, cogs |-> 0, errors |-> <<>>, workflow_steps |-> <<>>]

\* rates: for each line the COGS loop has gone through, the rate the backend
\* held for the item and whether its answer reached the loop
EmptyLocal == [items |-> <<>>, revenue |-> 0, cogs |-> 0, rates |-> <<>>]

EmptyCache == [vendors |-> <<>>, customers |-> <<>>, items |-> <<>>]

NoData == [type |-> None, contact |-> None, items |-> <<>>]

\* the id the backend answers with for a contact or an item
BackendId(kind, key) == <<kind, key>>

StepAfter_BillFirst(type, pc, flags) ==
    LET purchaseSteps ==
            <<"order">>
            \o (IF flags.auto_create_bills THEN <<"bill">> ELSE <<>>)
            \o (IF flags.auto_receive_po THEN <<"receive">> ELSE <<>>)
        saleSteps ==
            <<"order">>
            \o (IF flags.auto_create_shipments THEN <<"shipment", "cogs">> ELSE <<>>)
            \o (IF flags.auto_create_invoices THEN <<"invoice">> ELSE <<>>)
        steps == IF type = "purchase" THEN purchaseSteps ELSE saleSteps
        at == CHOOSE k \in 1..Len(steps) : steps[k] = pc
    IN IF at = Len(steps) THEN "done" ELSE steps[at + 1]

\* the step that follows `pc` in the try block, by type and feature flags;
\* "done" when the next statement is result['success'] = True
StepAfter(type, pc, flags) ==
    LET purchaseSteps ==
            <<"order">>
            \o (IF flags.auto_receive_po THEN <<"receive">> ELSE <<>>)
            \o (IF flags.auto_create_bills THEN <<"bill">> ELSE <<>>)
        saleSteps ==
            <<"order">>
            \o (IF flags.auto_create_invoices THEN <<"invoice">> ELSE <<>>)
            \o (IF flags.auto_create_shipments THEN <<"shipment", "cogs">> ELSE <<>>)
        steps == IF type = "purchase" THEN purchaseSteps ELSE saleSteps
        at == CHOOSE k \in 1..Len(steps) : steps[k] = pc
    IN IF at = Len(steps) THEN "done" ELSE steps[at + 1]

\* _cleanup_failed_purchase / _cleanup_failed_sale: the artifacts a DELETE is
\* called for, in the order of the calls
CleanupTargets(type, result) ==
    IF type = "purchase"
    THEN (IF result.bill_id # None THEN <<"bill">> ELSE <<>>) \o <<"order">>
    ELSE (IF result.shipment_id # None THEN <<"shipment">> ELSE <<>>)
         \o (IF result.invoice_id # None THEN <<"invoice">> ELSE <<>>)
         \o <<"order">>

RECURSIVE RunDeletes(_, _, _)
RunDeletes_IgnoresAvailability(targets, scripts, avail) ==
    IF targets = <<>>
    THEN [avail |-> avail, sent |-> <<>>, used |-> 0]
    ELSE LET r == ApiCall(TRUE, "DELETE", Head(targets), Head(scripts))
         IN IF r.exc # None
            THEN [avail |-> avail /\ r.avail, sent |-> r.sent,
                  used |-> IF avail THEN Used401(Head(scripts)) ELSE 0]
            ELSE LET rest == RunDeletes(Tail(targets), Tail(scripts),
                                        avail /\ r.avail)
                 IN [avail |-> rest.avail, sent |-> r.sent \o rest.sent,
                     used |-> Used401(Head(scripts)) + rest.used]

\* the body of the single try block of the cleanup: the DELETE calls in
\* order, left at the first call that raises
RunDeletes(targets, scripts, avail) ==
    IF targets = <<>>
    THEN [avail |-> avail, sent |-> <<>>, used |-> 0]
    ELSE LET r == ApiCall(avail, "DELETE", Head(targets), Head(scripts))
         IN IF r.exc # None
            THEN [avail |-> r.avail, sent |-> r.sent,
                  used |-> IF avail THEN Used401(Head(scripts)) ELSE 0]
            ELSE LET rest == RunDeletes(Tail(targets), Tail(scripts), r.avail)
                 IN [avail |-> rest.avail, sent |-> r.sent \o rest.sent,
                     used |-> Used401(Head(scripts)) + rest.used]

(***************************************************************************)
(* ZohoClient.process_complete_data, step by step.                         *)
(***************************************************************************)
\* f"Purchase workflow failed: {e}" / f"Sales workflow failed: {e}"
WorkflowError(type, exc) ==
    [stage |-> IF type = "purchase" THEN "Purchase workflow failed"
               ELSE "Sales workflow failed",
     cause |-> exc]

InCache_Never(c, kind, key) == FALSE

\* `if standardized_name in self._cache['vendors']`, `if sku in
\* self._cache['items']`: the test every resolution starts with
InCache(c, kind, key) == key \in DOMAIN c[kind]

\* the cache entry the step in progress resolves: the standardized name
\* of the vendor or of the channel in Step 1, the item's SKU in Step 2
ResolvingKey ==
    IF zpc = "contact"
    THEN IF zdata.type = "purchase"
         THEN [kind |-> "vendors", key |-> StandardizeVendorName(zdata.contact)]
         ELSE [kind |-> "customers",
               key |-> StandardizeChannelName(zdata.contact)]
    ELSE [kind |-> "items", key |-> zdata.items[zidx].sku]

\* the create call among the requests a step sent: the POST to contacts or
\* to items (two requests when the first was answered 401)
CreateCallsIn(sent) ==
    IF \E k \in 1..Len(sent) :
          sent[k].method = "POST" /\ sent[k].target \in {"contacts", "items"}
    THEN <<ResolvingKey>>
    ELSE <<>>

Raise_LogsStep(exc, avail, sent, used) ==
    /\ is_available' = avail
    /\ http_log' = http_log \o sent
    /\ create_calls' = create_calls \o CreateCallsIn(sent)
    /\ n401' = n401 + used
    /\ zresult' = [zresult EXCEPT
                      !.errors = Append(@, WorkflowError(zdata.type, exc)),
                      !.workflow_steps = Append(@, zpc)]
    /\ zpc' = IF zresult.order_id # None THEN "cleanup" ELSE "done"
    /\ UNCHANGED <<config, cache, zdata, zidx, zlocal, zruns>>

\* The except block of the workflow up to the cleanup call: the error is
\* appended, and the cleanup runs only when the order id was recorded.
Raise(exc, avail, sent, used) ==
    /\ is_available' = avail
    /\ http_log' = http_log \o sent
    /\ create_calls' = create_calls \o CreateCallsIn(sent)
    /\ n401' = n401 + used
    /\ zresult' = [zresult EXCEPT
                      !.errors = Append(@, WorkflowError(zdata.type, exc))]
    /\ zpc' = IF zresult.order_id # None THEN "cleanup" ELSE "done"
    /\ UNCHANGED <<config, cache, zdata, zidx, zlocal, zruns>>

\* process_complete_data(d) up to the call of the workflow method
StartWorkflow(d) ==
    /\ zdata' = d
    /\ zruns' = zruns + 1
    /\ http_log' = <<>>
    /\ create_calls' = create_calls
    /\ zidx' = 1
    /\ zlocal' = EmptyLocal
    /\ IF ~is_available
       THEN /\ zresult' = [EmptyResult EXCEPT !.errors =
                   <<[stage |-> "process_complete_data",
                      cause |-> "Unavailable"]>>]
            /\ zpc' = "done"
       ELSE /\ zresult' = EmptyResult
            /\ zpc' = "contact"
    /\ UNCHANGED <<is_available, config, cache, n401>>

\* process_complete_data called with some clean data
ProcessCompleteData ==
    /\ zpc = "idle"
    /\ UNCHANGED outsidePosting
    /\ zruns < MaxWorkflows
    /\ \E d \in ValidCleanData : StartWorkflow(d)

\* Step 1: _find_or_create_vendor / _find_or_create_customer
FindOrCreateContact ==
    /\ zpc = "contact"
    /\ UNCHANGED outsidePosting
    /\ LET kind == IF zdata.type = "purchase" THEN "vendors" ELSE "customers"
           key  == IF zdata.type = "purchase"
                   THEN StandardizeVendorName(zdata.contact)
                   ELSE StandardizeChannelName(zdata.contact)
           resolved(newcache, sent, used) ==
               /\ cache' = newcache
               /\ http_log' = http_log \o sent
               /\ create_calls' = create_calls \o CreateCallsIn(sent)
               /\ n401' = n401 + used
               /\ zresult' = [zresult EXCEPT !.workflow_steps =
                                 Append(@, IF zdata.type = "purchase"
                                           THEN "Vendor resolved"
                                           ELSE "Customer resolved")]
               /\ zpc' = "items"
               /\ UNCHANGED <<is_available, config, zdata, zidx, zlocal, zruns>>
           cached(id) == [cache EXCEPT ![kind] = @ @@ (key :> id)]
       IN IF InCache(cache, kind, key)
          THEN resolved(cache, <<>>, 0)
          ELSE \E s1 \in Scripts(Max401 - n401) :
                 LET search == ApiCall(is_available, "GET", "contacts", s1)
                     u1 == IF is_available THEN Used401(s1) ELSE 0
                 IN IF search.exc # None
                    THEN Raise(search.exc, search.avail, search.sent, u1)
                    ELSE IF search.body = "malformed"
                    THEN Raise("MalformedResponse", search.avail, search.sent, u1)
                    ELSE \/ resolved(cached(BackendId(kind, key)), search.sent, u1)
                         \/ \E s2 \in Scripts(Max401 - n401 - u1) :
                              LET create == ApiCall(search.avail, "POST", "contacts", s2)
                                  sent == search.sent \o create.sent
                                  used == u1 + Used401(s2)
                              IN IF create.exc # None
                                 THEN Raise(create.exc, create.avail, sent, used)
                                 ELSE IF create.body = "malformed"
                                 THEN Raise("MalformedResponse", create.avail, sent, used)
                                 ELSE resolved(cached(BackendId(kind, key)), sent, used)

\* Step 2, one iteration of the loop over the items up to the stock check:
\* _ensure_item_exists_in_zoho(sku, name)
EnsureItemExists ==
    /\ zpc = "items"
    /\ UNCHANGED outsidePosting
    /\ zidx <= Len(zdata.items)
    /\ LET item == zdata.items[zidx]
           ensured(newcache, sent, used) ==
               /\ cache' = newcache
               /\ http_log' = http_log \o sent
               /\ create_calls' = create_calls \o CreateCallsIn(sent)
               /\ n401' = n401 + used
               /\ IF zdata.type = "purchase"
                  THEN /\ zlocal' = [zlocal EXCEPT !.items = Append(@,
                              [sku |-> item.sku, quantity |-> item.quantity,
                               price |-> item.price])]
                       /\ zidx' = zidx + 1
                       /\ zpc' = "items"
                  ELSE /\ zpc' = "details"
                       /\ UNCHANGED <<zlocal, zidx>>
               /\ UNCHANGED <<is_available, config, zdata, zresult, zruns>>
           cached(id) == [cache EXCEPT !.items = @ @@ (item.sku :> id)]
       IN IF item.sku = None
          THEN Raise("ValueError", is_available, <<>>, 0)
          ELSE IF InCache(cache, "items", item.sku)
          THEN ensured(cache, <<>>, 0)
          ELSE \E s1 \in Scripts(Max401 - n401) :
                 LET search == ApiCall(is_available, "GET", "items", s1)
                     u1 == IF is_available THEN Used401(s1) ELSE 0
                 IN IF search.exc # None
                    THEN Raise(search.exc, search.avail, search.sent, u1)
                    ELSE IF search.body = "malformed"
                    THEN Raise("MalformedResponse", search.avail, search.sent, u1)
                    ELSE \/ ensured(cached(BackendId("items", item.sku)),
                                    search.sent, u1)
                         \/ \E s2 \in Scripts(Max401 - n401 - u1) :
                              LET create == ApiCall(search.avail, "POST", "items", s2)
                                  sent == search.sent \o create.sent
                                  used == u1 + Used401(s2)
                              IN IF create.exc # None
                                 THEN Raise(create.exc, create.avail, sent, used)
                                 ELSE IF create.body = "malformed"
                                 THEN Raise("MalformedResponse", create.avail, sent, used)
                                 ELSE ensured(cached(BackendId("items", item.sku)),
                                              sent, used)

\* Step 2 of a sale, rest of the iteration: _get_item_details (which
\* swallows its exceptions and returns {}), the stock warning (logged
\* only), the item's revenue.
CheckStock ==
    /\ zpc = "details"
    /\ UNCHANGED outsidePosting
    /\ \E s \in (IF is_available THEN Scripts(Max401 - n401) ELSE {<<"ok">>}) :
         LET item == zdata.items[zidx]
             details == ApiCall(is_available, "GET", "item_details", s)
             used == IF is_available THEN Used401(s) ELSE 0
         IN IF details.body = "malformed"
            THEN Raise("MalformedResponse", details.avail, details.sent, used)
            ELSE /\ is_available' = details.avail
                 /\ http_log' = http_log \o details.sent
                 /\ create_calls' = create_calls \o CreateCallsIn(details.sent)
                 /\ n401' = n401 + used
                 /\ zlocal' = [zlocal EXCEPT
                        !.items = Append(@, [sku |-> item.sku,
                                             quantity |-> item.quantity,
                                             price |-> item.price]),
                        !.revenue = @ + item.quantity * item.price]
                 /\ zidx' = zidx + 1
                 /\ zpc' = "items"
                 /\ UNCHANGED <<config, cache, zdata, zresult, zruns>>

\* Step 2, after the loop: the locals are stored in the result
ItemsValidated ==
    /\ zpc = "items"
    /\ UNCHANGED outsidePosting
    /\ zidx > Len(zdata.items)
    /\ zresult' = [zresult EXCEPT
                      !.items_processed = zlocal.items,
                      !.revenue = zlocal.revenue,
                      !.workflow_steps = Append(@, "Items validated")]
    /\ zpc' = "order"
    /\ UNCHANGED <<is_available, config, cache, zdata, zidx, zlocal,
                   http_log, create_calls, n401, zruns>>

\* response.get('purchaseorder', {}).get('purchaseorder_id') and its like on
\* a 2xx body: the id of the document when the body holds it; when it does
\* not, None if the object or its id is absent (both .get calls return their
\* default), and an AttributeError if the body holds something else than a
\* mapping under the object's key.
IdReads(body, step) ==
    IF body = "malformed" THEN {None, "raises"} ELSE {step}

\* the requests of a POST step as the log keeps them: a 2xx answer without
\* the object, which the step read None from, is logged as "no_id", and
\* "malformed" is left to the answer the read raised on
LoggedAs(sent, field, id) ==
    IF field # None /\ id = None
    THEN [sent EXCEPT ![Len(sent)].response = "no_id"]
    ELSE sent

\* One POST step of the try block.  `field` is the result key the id read
\* from the answer is stored under (None for the receive step, whose answer
\* is not read).
PostStep(step, field, label) ==
    /\ zpc = step
    /\ UNCHANGED outsidePosting
    /\ \E s \in (IF is_available THEN Scripts(Max401 - n401) ELSE {<<"ok">>}) :
       \E id \in IdReads(LET l == s[Len(s)] IN IF field = None THEN "ok" ELSE l,
                         step) :
         LET post == ApiCall(is_available, "POST", step, s)
             used == IF is_available THEN Used401(s) ELSE 0
             next == StepAfter(zdata.type, step, config)
         IN IF post.exc # None
            THEN Raise(post.exc, post.avail, post.sent, used)
            ELSE IF id = "raises"
            THEN Raise("MalformedResponse", post.avail, post.sent, used)
            ELSE /\ http_log' = http_log \o LoggedAs(post.sent, field, id)
                 /\ create_calls' = create_calls \o CreateCallsIn(post.sent)
                 /\ n401' = n401 + used
                 /\ zresult' =
                      LET stored == IF field = None THEN zresult
                                    ELSE [zresult EXCEPT ![field] = id]
                      IN [stored EXCEPT
                            !.workflow_steps = Append(@, label),
                            !.success = (next = "done")]
                 /\ zpc' = next
                 /\ zidx' = 1
                 /\ UNCHANGED <<is_available, config, cache, zdata, zlocal, zruns>>

\* Step 3
CreateOrder == PostStep("order", "order_id", "Order created")
\* Step 4 of a purchase
ReceiveOrder == PostStep("receive", None, "Purchase Order marked as received")
\* Step 5 of a purchase
CreateBill == PostStep("bill", "bill_id", "Bill created")
\* Step 4 of a sale
CreateInvoice == PostStep("invoice", "invoice_id", "Invoice created")
\* Step 5 of a sale, up to the COGS calculation
CreateShipment == PostStep("shipment", "shipment_id", "Shipment created")

LineCogs_Overwrites(total_cogs, quantity, current_rate) ==
    quantity * current_rate

\* item_cogs = quantity * current_rate; total_cogs += item_cogs
LineCogs(total_cogs, quantity, current_rate) ==
    total_cogs + quantity * current_rate

\* _calculate_cogs_from_shipment: one iteration of its loop (every
\* exception of the iteration is swallowed), or its return
CalculateCogs ==
    /\ zpc = "cogs"
    /\ UNCHANGED outsidePosting
    /\ IF zidx > Len(zresult.items_processed)
       THEN /\ zresult' = [zresult EXCEPT !.cogs = zlocal.cogs, !.success = TRUE]
            /\ zpc' = "done"
            /\ UNCHANGED <<is_available, config, cache, zdata, zidx, zlocal,
                           http_log, create_calls, n401, zruns>>
       ELSE \E s \in (IF is_available THEN Scripts(Max401 - n401) ELSE {<<"ok">>}),
               rate \in BackendRates :
              LET item == zresult.items_processed[zidx]
                  details == ApiCall(is_available, "GET", "item_details", s)
                  used == IF is_available THEN Used401(s) ELSE 0
                  read == IF details.body = "ok" THEN rate ELSE 0
              IN /\ is_available' = details.avail
                 /\ http_log' = http_log \o details.sent
                 /\ create_calls' = create_calls \o CreateCallsIn(details.sent)
                 /\ n401' = n401 + used
                 /\ zlocal' = [zlocal EXCEPT
                         !.cogs = LineCogs(@, item.quantity, read),
                         !.rates = Append(@, [rate |-> rate,
                                              read |-> details.body = "ok"])]
                 /\ zidx' = zidx + 1
                 /\ UNCHANGED <<config, cache, zpc, zdata, zresult, zruns>>

\* _cleanup_failed_purchase / _cleanup_failed_sale, called from the except
\* block when the order id is set
CleanupFailed ==
    /\ zpc = "cleanup"
    /\ UNCHANGED outsidePosting
    /\ LET targets == CleanupTargets(zdata.type, zresult)
           choices == IF is_available THEN Scripts(Max401 - n401) ELSE {<<"ok">>}
       IN \E scripts \in [1..Len(targets) -> choices] :
            LET r == RunDeletes(targets, scripts, is_available)
            IN /\ n401 + r.used <= Max401
               /\ is_available' = r.avail
               /\ http_log' = http_log \o r.sent
               /\ create_calls' = create_calls \o CreateCallsIn(r.sent)
               /\ n401' = n401 + r.used
    /\ zpc' = "done"
    /\ UNCHANGED <<config, cache, zdata, zidx, zlocal, zresult, zruns>>

\* process_complete_data returns the result to its caller: the frame's
\* locals are gone, the client keeps is_available and its caches
WorkflowReturn ==
    /\ zpc = "done"
    /\ UNCHANGED outsidePosting
    /\ zpc' = "idle"
    /\ zdata' = NoData
    /\ zidx' = 1
    /\ zlocal' = EmptyLocal
    /\ zresult' = EmptyResult
    /\ http_log' = <<>>
    /\ create_calls' = create_calls
    /\ n401' = 0
    /\ UNCHANGED <<is_available, config, cache, zruns>>

\* ZOHO_AUTO_* settings.  A purchase reads only the first two and a sale
\* only the last two, so the two pairs are varied together.
FeatureFlags ==
    {[auto_receive_po |-> a, auto_create_bills |-> b,
      auto_create_invoices |-> a, auto_create_shipments |-> b] :
        a \in BOOLEAN, b \in BOOLEAN}

(***************************************************************************)
(* Compensation of a failed workflow.                                      *)
(***************************************************************************)
ArtifactKinds == {"order", "bill", "invoice", "shipment"}

RECURSIVE TargetsOf(_)
TargetsOf(log) ==
    IF log = <<>> THEN <<>> ELSE <<Head(log).target>> \o TargetsOf(Tail(log))

\* the artifacts the backend created in this invocation, in creation order
CreatedArtifacts ==
    TargetsOf(SelectSeq(http_log,
        LAMBDA q : q.method = "POST" /\ q.target \in ArtifactKinds
                   /\ q.response = "ok"))

\* the artifacts a DELETE was sent for, in the order sent (the request
\* repeated after a 401 counted once)
DeleteRequests ==
    LET first(k) == ~(k > 1 /\ http_log[k-1].method = "DELETE"
                            /\ http_log[k-1].target = http_log[k].target
                            /\ http_log[k-1].response = "unauthorized")
        idx == {k \in 1..Len(http_log) : http_log[k].method = "DELETE" /\ first(k)}
        RECURSIVE pick(_)
        pick(k) == IF k > Len(http_log) THEN <<>>
                   ELSE (IF k \in idx THEN <<http_log[k].target>> ELSE <<>>)
                        \o pick(k + 1)
    IN pick(1)

\* C1: when a posting workflow fails after having created N artifacts, a
\* delete request is sent for exactly those N artifacts in the reverse of
\* their creation order, and the result has success = false and carries
\* the originating error -- whatever the cause of the failure.
C1_ReverseCompensation ==
    (zpc = "done" /\ ~zresult.success /\ CreatedArtifacts # <<>>)
        => /\ DeleteRequests = Reverse(CreatedArtifacts)
           /\ zresult.errors # <<>>

\* C2: the compensation is best effort: after a delete has failed, every
\* remaining delete of the cleanup is still attempted.
C2_RemainingDeletesAttempted ==
    (/\ zpc = "done"
     /\ \E k \in 1..Len(http_log) :
            /\ http_log[k].method = "DELETE"
            /\ http_log[k].response \in {"http_error", "network"})
        => \A t \in {CleanupTargets(zdata.type, zresult)[j] :
                        j \in 1..Len(CleanupTargets(zdata.type, zresult))} :
              \E k \in 1..Len(http_log) :
                 http_log[k].method = "DELETE" /\ http_log[k].target = t

(***************************************************************************)
(* Order of the backend calls of a workflow.                               *)
(***************************************************************************)
StepTargets == {"order", "receive", "bill", "invoice", "shipment"}

\* the POSTs of Steps 3 to 5 sent so far, in the order sent (the request
\* repeated after a 401 counted once)
StartedSteps ==
    LET first(k) == ~(k > 1 /\ http_log[k-1].method = "POST"
                            /\ http_log[k-1].target = http_log[k].target
                            /\ http_log[k-1].response = "unauthorized")
        RECURSIVE pick(_)
        pick(k) == IF k > Len(http_log) THEN <<>>
                   ELSE (IF /\ http_log[k].method = "POST"
                            /\ http_log[k].target \in StepTargets
                            /\ first(k)
                         THEN <<http_log[k].target>> ELSE <<>>)
                        \o pick(k + 1)
    IN pick(1)

\* the steps of workflow_steps that Steps 3 to 5 recorded
RecordedSteps ==
    SelectSeq(zresult.workflow_steps,
        LAMBDA label : label \notin {"Vendor resolved", "Customer resolved",
                                     "Items validated"})

\* the order the two paths are to call the backend in, by the switches
SpecifiedSteps(type, flags) ==
    IF type = "purchase"
    THEN <<"order">>
         \o (IF flags.auto_receive_po THEN <<"receive">> ELSE <<>>)
         \o (IF flags.auto_create_bills THEN <<"bill">> ELSE <<>>)
    ELSE <<"order">>
         \o (IF flags.auto_create_invoices THEN <<"invoice">> ELSE <<>>)
         \o (IF flags.auto_create_shipments THEN <<"shipment">> ELSE <<>>)

IsPrefix(s, t) == Len(s) <= Len(t) /\ \A k \in 1..Len(s) : s[k] = t[k]

\* C13: in both paths the backend calls come in the fixed order contact,
\* items, order, then the optional steps their switches enable, a step is
\* started only after every earlier step succeeded, and success is set
\* only after every enabled step.
C13_FixedStepOrder ==
    zpc # "idle" =>
        /\ IsPrefix(StartedSteps, SpecifiedSteps(zdata.type, config))
        /\ Len(StartedSteps) - 1 <= Len(RecordedSteps)
        /\ Len(RecordedSteps) <= Len(StartedSteps)
        /\ StartedSteps # <<>> =>
              /\ Len(zresult.workflow_steps) >= 2
              /\ zresult.workflow_steps[1]
                    = (IF zdata.type = "purchase" THEN "Vendor resolved"
                       ELSE "Customer resolved")
              /\ zresult.workflow_steps[2] = "Items validated"
        /\ \A j \in 1..Len(http_log), k \in 1..Len(http_log) :
              (j < k /\ http_log[j].target \in StepTargets \cup {"items", "item_details"})
                  => http_log[k].target # "contacts"
        /\ \A j \in 1..Len(http_log), k \in 1..Len(http_log) :
              (j < k /\ http_log[j].target \in StepTargets
                     /\ http_log[k].target \in {"items", "item_details"})
                  => /\ http_log[k].target = "item_details"
                     /\ \E m \in 1..(k-1) :
                           /\ http_log[m].target = "shipment"
                           /\ http_log[m].response \in {"ok", "no_id"}
        /\ zresult.success =>
              /\ StartedSteps = SpecifiedSteps(zdata.type, config)
              /\ Len(RecordedSteps) = Len(StartedSteps)

\* a purchase with both switches on that went through order, receive and
\* bill, and a sale with both switches on through order, invoice, shipment
C13_AllStepsInOrder ==
    /\ zpc = "done"
    /\ zresult.success
    /\ StartedSteps \in {<<"order", "receive", "bill">>,
                          <<"order", "invoice", "shipment">>}

\* the entry a step of Steps 3 to 5 appends to workflow_steps
LabelOf(target) ==
    CASE target = "order"    -> "Order created"
      [] target = "receive"  -> "Purchase Order marked as received"
      [] target = "bill"     -> "Bill created"
      [] target = "invoice"  -> "Invoice created"
      [] target = "shipment" -> "Shipment created"

\* the POSTs of Steps 3 to 5 the backend answered so that the step went
\* on: a 2xx answer the step's read did not raise on (the receive step
\* reads none)
CompletedPosts ==
    LET completed(h) ==
            /\ h.method = "POST"
            /\ h.target \in StepTargets
            /\ \/ h.response \in {"ok", "no_id"}
               \/ h.response = "malformed" /\ h.target = "receive"
        logged == SelectSeq(http_log, completed)
    IN [k \in 1..Len(logged) |-> logged[k].target]

\* the whole step log of a workflow that runs to its end
FullStepLog(type, flags) ==
    <<IF type = "purchase" THEN "Vendor resolved" ELSE "Customer resolved",
      "Items validated">>
        \o [k \in 1..Len(SpecifiedSteps(type, flags)) |->
               LabelOf(SpecifiedSteps(type, flags)[k])]

\* C32 as stated: within one run, no vendor name, channel name or SKU is
\* the subject of more than one create call.
C32_OneCreateCallPerKey ==
    \A i \in DOMAIN create_calls, j \in DOMAIN create_calls :
        i # j => create_calls[i] # create_calls[j]

\* the resolution the step in progress is about to make, if any
Resolving ==
    \/ zpc = "contact"
    \/ zpc = "items" /\ zidx <= Len(zdata.items)
                     /\ zdata.items[zidx].sku # None

\* C32: an entry of the cache is never changed or removed; a resolution
\* whose key is in the cache sends nothing to the backend and goes on; a
\* create call is sent only for a key that is not in the cache, and unless
\* the workflow fails in that step the key is in the cache afterwards, so
\* that a key has at most one create call whose answer the client could
\* use.
C32_CachedKeyResolvedOnce ==
    [][/\ \A kind \in {"vendors", "customers", "items"} :
            \A key \in DOMAIN cache[kind] :
                /\ key \in DOMAIN cache'[kind]
                /\ cache'[kind][key] = cache[kind][key]
       /\ (Resolving /\ zpc' # zpc
            /\ ResolvingKey.key \in DOMAIN cache[ResolvingKey.kind])
            => /\ http_log' = http_log
               /\ create_calls' = create_calls
               /\ zpc' \notin {"cleanup", "done"}
       /\ create_calls' # create_calls
            => /\ Resolving
               /\ create_calls' = Append(create_calls, ResolvingKey)
               /\ ResolvingKey.key \notin DOMAIN cache[ResolvingKey.kind]
               /\ \/ ResolvingKey.key \in DOMAIN cache'[ResolvingKey.kind]
                  \/ zpc' \in {"cleanup", "done"}
      ]_vars

\* a second workflow resolved from the cache a vendor that the first one
\* had created under a name spelled differently
C32_SecondWorkflowUsedCache ==
    /\ zruns = 2
    /\ zdata.type = "purchase"
    /\ zpc = "items"
    /\ http_log = <<>>
    /\ create_calls # <<>>
    /\ create_calls[1] = [kind |-> "vendors", key |-> "Acme"]
    /\ \A i \in DOMAIN create_calls : i > 1 => create_calls[i].kind = "items"

\* C27: the step log of a workflow holds one entry for each step that
\* completed, in execution order, and none for a step that failed or was
\* not reached, when the workflow fails as when it succeeds.
C27_StepLogIsCompletedSteps ==
    zpc # "idle" =>
        /\ IsPrefix(zresult.workflow_steps, FullStepLog(zdata.type, config))
        /\ RecordedSteps = [k \in 1..Len(CompletedPosts) |->
                              LabelOf(CompletedPosts[k])]
        /\ zresult.success => zresult.workflow_steps
                                  = FullStepLog(zdata.type, config)
        /\ Len(zresult.workflow_steps) >= 1 =>
              IF zdata.type = "purchase"
              THEN StandardizeVendorName(zdata.contact) \in DOMAIN cache.vendors
              ELSE StandardizeChannelName(zdata.contact)
                       \in DOMAIN cache.customers
        /\ Len(zresult.workflow_steps) >= 2 =>
              /\ Len(zresult.items_processed) = Len(zdata.items)
              /\ \A k \in DOMAIN zdata.items :
                    zdata.items[k].sku \in DOMAIN cache.items

C27_LogOfFailedWorkflow ==
    /\ zpc = "done"
    /\ ~zresult.success
    /\ zresult.errors # <<>>
    /\ Len(zresult.workflow_steps) = 3
    /\ Len(StartedSteps) = 2

RECURSIVE CogsOf(_, _, _)
\* the sum over the lines of quantity * rate; with read_only, a line whose
\* rate did not reach the loop counts 0
CogsOf(items, rates, read_only) ==
    IF items = <<>> \/ rates = <<>> THEN 0
    ELSE (IF read_only /\ ~Head(rates).read THEN 0
          ELSE Head(items).quantity * Head(rates).rate)
         + CogsOf(Tail(items), Tail(rates), read_only)

\* the sale workflow returned after its shipment step ran
ShipmentStepRan ==
    /\ zpc = "done"
    /\ zdata.type = "sale"
    /\ \E k \in DOMAIN zresult.workflow_steps :
          zresult.workflow_steps[k] = "Shipment created"

\* C28 as stated: after the shipment step the result's cogs is the sum over
\* the shipped lines of quantity * the rate the backend holds for the item;
\* without the shipment step it is 0.
C28_CogsIsBackendValue ==
    zpc = "done" =>
        zresult.cogs = (IF ShipmentStepRan
                        THEN CogsOf(zresult.items_processed, zlocal.rates, FALSE)
                        ELSE 0)

\* C28, amended: after the shipment step the result's cogs is the sum of
\* quantity * rate over the shipped lines whose rate the backend's answer
\* delivered, a line whose item details could not be read counting 0;
\* every line has been asked for after the shipment was created; without
\* the shipment step cogs is 0.
C28_CogsOfRatesRead ==
    zpc = "done" =>
        /\ zresult.cogs = (IF ShipmentStepRan
                           THEN CogsOf(zresult.items_processed, zlocal.rates, TRUE)
                           ELSE 0)
        /\ ShipmentStepRan => Len(zlocal.rates) = Len(zresult.items_processed)
        /\ ~ShipmentStepRan => zlocal.rates = <<>>

C28_TwoLinesCosted ==
    /\ ShipmentStepRan
    /\ Len(zresult.items_processed) = 2
    /\ \A k \in DOMAIN zlocal.rates : zlocal.rates[k].read
    /\ zresult.cogs > 4

\* the invocation ended inside the loop over the items of Step 2
AbortedInItemLoop ==
    /\ zpc = "done"
    /\ Len(zresult.workflow_steps) = 1
    /\ zresult.errors # <<>>

\* C14: a posting workflow goes on with the items that resolved when an
\* item fails to resolve; it is aborted in the item loop, with no order
\* created, only when none of its items resolved.
C14_AbortOnlyIfNoItemResolves ==
    AbortedInItemLoop => zlocal.items = <<>>

(***************************************************************************)
(* AirtableClient.process_transaction, step by step.                       *)
(***************************************************************************)
\* the requests _process_item_inventory can send for one item
LedgerRequests == {"find_sku", "find_upc", "find_name", "create", "update"}

\* str.upper() on the SKUs that occur
Upper(sku) == CASE sku = "w1" -> "W1" [] OTHER -> sku

\* line items as they arrive from the extraction (names already stripped by
\* _clean_parsed_data)
LedgerItemPool ==
    { [sku |-> "W1", upc |-> None,  name |-> "Widget", quantity |-> 1],
      [sku |-> "W1", upc |-> None,  name |-> "Widget", quantity |-> 2],
      [sku |-> None, upc |-> "123", name |-> "Gadget", quantity |-> 1],
      [sku |-> None, upc |-> "123", name |-> "Gadget Pro", quantity |-> 1],
      [sku |-> None, upc |-> None,  name |-> "Gizmo",  quantity |-> 1] }

LedgerData ==
    {[type |-> t, items |-> it] :
        t \in TransactionTypes,
        it \in SeqsUpTo(LedgerItemPool, MaxItems) \ {<<>>}}

\* f"UPC-{item['upc']}" on the UPCs that occur
UpcSku(upc) == CASE upc = "123" -> "UPC-123"

\* f"AUTO-{prefix}-{name_hash}" on the names that occur: the prefix is the
\* initials of a name of several words and the first four characters of
\* a single word; the hash (written #name) is six digits of the name's md5
AutoSku(name) ==
    CASE name = "Widget"     -> "AUTO-WIDG-#Widget"
      [] name = "Gadget"     -> "AUTO-GADG-#Gadget"
      [] name = "Gadget Pro" -> "AUTO-GP-#Gadget Pro"
      [] name = "Gizmo"      -> "AUTO-GIZM-#Gizmo"

GenerateSku_Blank(item) == IF item.sku # None THEN Upper(item.sku) ELSE None

\* _generate_sku (no item of the pool carries a product_id)
GenerateSku(item) ==
    IF item.sku # None THEN Upper(item.sku)
    ELSE IF item.upc # None THEN UpcSku(item.upc)
    ELSE AutoSku(item.name)

\* _find_inventory_by_sku / _by_upc / _by_name: the id of the first record
\* whose field equals the value; 0 (None) when there is none or when the
\* request failed, the exception being swallowed
FindInventoryBy(inv, field, value, failed) ==
    LET hits == {k \in 1..Len(inv) : inv[k][field] = value}
    IN IF failed \/ hits = {} THEN 0
       ELSE CHOOSE k \in hits : \A j \in hits : k <= j

\* _find_or_create_inventory_item with the requests in F failing.  rec = 0
\* stands for the None it returns; made is the set of requests it sent.
FindOrCreateInventoryItem(inv, item, F) ==
    LET bySku  == IF item.sku # None
                  THEN FindInventoryBy(inv, "sku", item.sku, "find_sku" \in F)
                  ELSE 0
        byUpc  == IF bySku = 0 /\ item.upc # None
                  THEN FindInventoryBy(inv, "sku", item.upc, "find_upc" \in F)
                  ELSE 0
        byName == IF bySku = 0 /\ byUpc = 0
                  THEN FindInventoryBy(inv, "name", item.name, "find_name" \in F)
                  ELSE 0
        found  == Max(bySku, Max(byUpc, byName))
        made   == (IF item.sku # None THEN {"find_sku"} ELSE {})
                  \cup (IF bySku = 0 /\ item.upc # None THEN {"find_upc"} ELSE {})
                  \cup (IF bySku = 0 /\ byUpc = 0 THEN {"find_name"} ELSE {})
                  \cup (IF found = 0 THEN {"create"} ELSE {})
    IN IF found # 0
       THEN [rec |-> found, sku |-> inv[found].sku,
             current_quantity |-> inv[found].quantity,
             action |-> "found", inv |-> inv, made |-> made]
       ELSE IF "create" \in F
       THEN [rec |-> 0, sku |-> None, current_quantity |-> 0,
             action |-> None, inv |-> inv, made |-> made]
       ELSE [rec |-> Len(inv) + 1, sku |-> GenerateSku(item),
             current_quantity |-> 0, action |-> "created",
             inv |-> Append(inv, [sku |-> GenerateSku(item),
                                  name |-> item.name, quantity |-> 0]),
             made |-> made]

QuantityChange_Unsigned(type, quantity) == quantity

\* the sign of the change: sales reduce the stock
QuantityChange(type, quantity) == IF type = "sale" THEN 0 - quantity ELSE quantity

NewQuantity_Unclamped(previous, change) == previous + change

\* _process_item_inventory, step 2
NewQuantity(previous, change) == Max(0, previous + change)

EmptyLedgerResult ==
    [success |-> FALSE, transaction_record_id |-> None,
     inventory_updates |-> <<>>, items_processed |-> <<>>,
     items_failed |-> <<>>, errors |-> <<>>, warnings |-> <<>>]

\* the fields create_purchase / create_sale store of their data argument
NoHeader == [date |-> None, vendor_name |-> None, channel |-> None, taxes |-> 0]

\* processed_items: the items with the SKU the ledger resolved
StoredItems(items_processed) ==
    [k \in 1..Len(items_processed) |->
        [name |-> items_processed[k].name, sku |-> items_processed[k].sku,
         quantity |-> items_processed[k].quantity]]

TransactionRecord(type, header, items, status, review, missing, seq_num) ==
    [type |-> type, header |-> header, items |-> items,
     processing_status |-> status, requires_review |-> review,
     missing_fields |-> missing, email_seq_num |-> seq_num]

\* process_transaction up to its loop
ProcessTransaction ==
    /\ lpc = "idle"
    /\ UNCHANGED outsideLedger
    /\ lruns < MaxTransactions
    /\ \E d \in LedgerData : ldata' = d
    /\ lruns' = lruns + 1
    /\ lidx' = 1
    /\ lresult' = EmptyLedgerResult
    /\ lpc' = "items"
    /\ UNCHANGED <<inventory, transactions, resolutions, quantity_writes, lfaults>>

AfterFailure_RollsBack(inv, updates) ==
    [k \in 1..Len(inv) |->
        IF \E i \in DOMAIN updates : updates[i].inventory_record_id = k
        THEN [inv[k] EXCEPT !.quantity =
                updates[CHOOSE i \in DOMAIN updates :
                          /\ updates[i].inventory_record_id = k
                          /\ \A j \in 1..(i - 1) :
                                updates[j].inventory_record_id # k
                       ].previous_quantity]
        ELSE inv[k]]

\* the inventory table after an item or the transaction record failed:
\* neither except clause of process_transaction, nor the branch of a failed
\* item, writes to the table, whatever updates the result already lists
AfterFailure(inv, updates) == inv

NextItem_AbortsOnFailure(i, n, success) == IF success THEN i + 1 ELSE n + 1

\* the loop `for i, item in enumerate(data.get('items', []), 1)` goes on to
\* the next of its n items, both except clauses being inside the loop
NextItem(i, n, success) == i + 1

\* one iteration of the loop of process_transaction: _process_item_inventory
\* and the bookkeeping of its result
ProcessItemInventory ==
    /\ lpc = "items"
    /\ UNCHANGED outsideLedger
    /\ lidx <= Len(ldata.items)
    /\ \E F \in SUBSET LedgerRequests :
         LET item == ldata.items[lidx]
             r == FindOrCreateInventoryItem(inventory, item, F)
             made == r.made \cup (IF r.rec # 0 THEN {"update"} ELSE {})
             new_quantity == NewQuantity(r.current_quantity,
                                 QuantityChange(ldata.type, item.quantity))
             updated == r.rec # 0 /\ "update" \notin F
         IN /\ F \subseteq made
            /\ lfaults + Cardinality(F) <= MaxFaults
            /\ lfaults' = lfaults + Cardinality(F)
            /\ resolutions' =
                 IF r.rec = 0 THEN resolutions
                 ELSE Append(resolutions,
                        [item |-> [sku |-> item.sku, upc |-> item.upc,
                                   name |-> item.name],
                         record_id |-> r.rec, sku |-> r.sku,
                         action |-> r.action])
            /\ inventory' = IF updated
                            THEN [r.inv EXCEPT ![r.rec].quantity = new_quantity]
                            ELSE AfterFailure(r.inv, lresult.inventory_updates)
            /\ quantity_writes' = IF updated
                                  THEN quantity_writes \cup {new_quantity}
                                  ELSE quantity_writes
            /\ lresult' =
                 IF updated
                 THEN [lresult EXCEPT
                         !.items_processed = Append(@,
                             [name |-> item.name, sku |-> r.sku,
                              quantity |-> item.quantity,
                              inventory_record_id |-> r.rec]),
                         !.inventory_updates = Append(@,
                             [sku |-> r.sku, inventory_record_id |-> r.rec,
                              action |-> r.action,
                              previous_quantity |-> r.current_quantity,
                              new_quantity |-> new_quantity])]
                 ELSE [lresult EXCEPT
                         !.items_failed = Append(@, item.name),
                         !.warnings = Append(@, item.name)]
            /\ lidx' = NextItem(lidx, Len(ldata.items), updated)
    /\ UNCHANGED <<transactions, lpc, ldata, lruns>>

\* step 2 of process_transaction: create_purchase / create_sale when an item
\* was processed, which raise when their request fails
CreateTransactionRecord ==
    /\ lpc = "items"
    /\ UNCHANGED outsideLedger
    /\ lidx > Len(ldata.items)
    /\ IF lresult.items_processed = <<>>
       THEN /\ lresult' = [lresult EXCEPT !.errors =
                              Append(@, "No items could be processed successfully")]
            /\ UNCHANGED <<transactions, lfaults, inventory>>
       ELSE \/ /\ transactions' = Append(transactions,
                    TransactionRecord(ldata.type, NoHeader,
                        StoredItems(lresult.items_processed),
                        "airtable_complete", FALSE, <<>>, 0))
               /\ lresult' = [lresult EXCEPT
                                !.transaction_record_id = Len(transactions) + 1,
                                !.success = TRUE]
               /\ UNCHANGED <<lfaults, inventory>>
            \/ /\ lfaults < MaxFaults
               /\ lfaults' = lfaults + 1
               /\ lresult' = [lresult EXCEPT !.errors =
                                 Append(@, "Transaction processing error")]
               /\ inventory' = AfterFailure(inventory,
                                             lresult.inventory_updates)
               /\ UNCHANGED transactions
    /\ lpc' = "done"
    /\ UNCHANGED <<ldata, lidx, resolutions, quantity_writes, lruns>>

\* process_transaction returns its result
LedgerReturn ==
    /\ lpc = "done"
    /\ UNCHANGED outsideLedger
    /\ lpc' = "idle"
    /\ ldata' = NoData
    /\ lidx' = 1
    /\ lresult' = EmptyLedgerResult
    /\ UNCHANGED <<inventory, transactions, resolutions, quantity_writes,
                   lfaults, lruns>>

\* C4: after any sequence of purchase and sale deltas applied to an
\* inventory record, the quantity written to the record is never negative,
\* also when a sale quantity exceeds the current stock.
C4_QuantityNeverNegative ==
    /\ \A q \in quantity_writes : q >= 0
    /\ \A k \in 1..Len(inventory) : inventory[k].quantity >= 0
    /\ \A k \in 1..Len(lresult.inventory_updates) :
          lresult.inventory_updates[k].new_quantity >= 0

\* a sale of more than the positive stock on hand was written as 0
C4_OversoldWritten ==
    /\ ldata.type = "sale"
    /\ \E k \in 1..Len(lresult.inventory_updates) :
          LET u == lresult.inventory_updates[k]
          IN /\ u.previous_quantity > 0
             /\ u.previous_quantity < lresult.items_processed[k].quantity
             /\ u.new_quantity = 0
             /\ inventory[u.inventory_record_id].quantity = 0

\* C29: an error while line item k is resolved or updated is recorded in
\* items_failed with the item's name and does not keep the line items after
\* k from being processed: every step of the loop that books an item books
\* the item the loop is at, as processed or as failed, and moves to the
\* next, and the loop ends only after the last item.
C29_ItemFailureIsolated ==
    [][/\ (/\ lpc = "items"
           /\ \/ lresult'.items_failed # lresult.items_failed
              \/ lresult'.items_processed # lresult.items_processed) =>
            /\ lpc' = "items"
            /\ lidx' = lidx + 1
            /\ \/ /\ lresult'.items_failed
                        = Append(lresult.items_failed, ldata.items[lidx].name)
                  /\ lresult'.items_processed = lresult.items_processed
               \/ /\ lresult'.items_failed = lresult.items_failed
                  /\ Len(lresult'.items_processed)
                        = Len(lresult.items_processed) + 1
                  /\ lresult'.items_processed[Len(lresult'.items_processed)].name
                        = ldata.items[lidx].name
       /\ (lpc = "items" /\ lpc' = "done") => lidx > Len(ldata.items)
      ]_vars

\* the first of two line items failed and the second was processed
C29_SecondProcessedAfterFailure ==
    /\ lpc = "done"
    /\ Len(ldata.items) = 2
    /\ lresult.items_failed = <<ldata.items[1].name>>
    /\ Len(lresult.items_processed) = 1
    /\ lresult.items_processed[1].name = ldata.items[2].name
    /\ lresult.success

\* C30: the ledger updates of a transaction are not atomic: the quantity
\* every update of the running call wrote is still the quantity of its
\* record (unless a later update of the same call wrote to that record),
\* after a later item failed and after the call ended with success false.
C30_WrittenUpdatesRemain ==
    lpc \in {"items", "done"} =>
        \A i \in DOMAIN lresult.inventory_updates :
            LET u == lresult.inventory_updates[i]
            IN (\A j \in (i + 1)..Len(lresult.inventory_updates) :
                    lresult.inventory_updates[j].inventory_record_id
                        # u.inventory_record_id)
               => inventory[u.inventory_record_id].quantity = u.new_quantity

\* the first item's update changed its record, the second item failed, and
\* the call ended without success because the transaction record failed
C30_FailedCallLeftUpdate ==
    /\ lpc = "done"
    /\ ~lresult.success
    /\ Len(ldata.items) = 2
    /\ lresult.items_failed = <<ldata.items[2].name>>
    /\ Len(lresult.inventory_updates) = 1
    /\ lresult.inventory_updates[1].new_quantity
           # lresult.inventory_updates[1].previous_quantity
    /\ lresult.errors = <<"Transaction processing error">>

\* C25: no two records of the inventory table carry the same SKU.
C25_OneRecordPerSku ==
    \A i, j \in DOMAIN inventory :
        inventory[i].sku = inventory[j].sku => i = j

\* the quantity of the inventory record, 0 for a record not there yet
StockOf(inv, rec) == IF rec \in DOMAIN inv THEN inv[rec].quantity ELSE 0

\* C24: every item update writes max(0, previous + delta) to the item's
\* record, delta being the item's quantity for a purchase and its negative
\* for a sale and previous the quantity the record had when the item was
\* resolved, and reports previous_quantity and new_quantity in the result.
C24_UpdateIsClampedSum ==
    [][Len(lresult'.inventory_updates) > Len(lresult.inventory_updates) =>
         LET u == lresult'.inventory_updates[Len(lresult'.inventory_updates)]
             quantity == ldata.items[lidx].quantity
             delta == IF ldata.type = "purchase" THEN quantity ELSE 0 - quantity
             previous == StockOf(inventory, u.inventory_record_id)
         IN /\ u.previous_quantity = previous
            /\ u.new_quantity = (IF previous + delta > 0 THEN previous + delta
                                 ELSE 0)
            /\ inventory'[u.inventory_record_id].quantity = u.new_quantity
            /\ u.new_quantity \in quantity_writes'
      ]_vars

\* a sale of less than the stock on hand was written as the difference
C24_SaleWithinStock ==
    /\ ldata.type = "sale"
    /\ \E k \in 1..Len(lresult.inventory_updates) :
          LET u == lresult.inventory_updates[k]
          IN /\ u.new_quantity > 0
             /\ u.new_quantity
                    = u.previous_quantity - lresult.items_processed[k].quantity
             /\ inventory[u.inventory_record_id].quantity = u.new_quantity

\* C19: a sale line that asks for more than the stock on hand is processed
\* with the stock written as 0 and a warning recorded for it in the result
\* (a warning more than the lines that failed).
C19_OversoldSaleWarned ==
    \A k \in 1..Len(lresult.inventory_updates) :
        (/\ ldata.type = "sale"
         /\ lresult.inventory_updates[k].previous_quantity
                < lresult.items_processed[k].quantity)
            => /\ lresult.inventory_updates[k].new_quantity = 0
               /\ Len(lresult.warnings) > Len(lresult.items_failed)

\* C5: SKU resolution is idempotent: of any two resolutions of the same
\* (name, upc, sku) in one run, also when a lookup fails transiently, the
\* second creates no new inventory record and returns the record id and
\* the SKU the first one created or found.
C5_ResolutionIdempotent ==
    \A i \in 1..Len(resolutions) : \A j \in 1..Len(resolutions) :
        (i < j /\ resolutions[i].item = resolutions[j].item)
            => /\ resolutions[j].action # "created"
               /\ resolutions[j].record_id = resolutions[i].record_id
               /\ resolutions[j].sku = resolutions[i].sku

\* the ledger store before the run's first transaction: empty tables
LedgerAtRest ==
    /\ inventory = <<>>
    /\ transactions = <<>>
    /\ lpc = "idle"
    /\ ldata = NoData
    /\ lidx = 1
    /\ lresult = EmptyLedgerResult
    /\ resolutions = <<>>
    /\ quantity_writes = {}
    /\ lfaults = 0
    /\ lruns = 0

\* the accounting client outside any invocation
PostingAtRest ==
    /\ is_available = FALSE
    /\ config = [auto_receive_po |-> TRUE, auto_create_bills |-> TRUE,
                 auto_create_invoices |-> TRUE, auto_create_shipments |-> TRUE]
    /\ cache = EmptyCache
    /\ zpc = "idle"
    /\ zdata = NoData
    /\ zidx = 1
    /\ zlocal = EmptyLocal
    /\ zresult = EmptyResult
    /\ http_log = <<>>
    /\ create_calls = <<>>
    /\ n401 = 0
    /\ zruns = 0

(***************************************************************************)
(* EmailParser._validate_completeness (the completeness gate).             *)
(***************************************************************************)
\* date strings: one matching VALIDATION_PATTERNS['date'], one that only
\* dateutil can read, one that nothing can read
DateValues == {"2024-01-05", "Jan 5, 2024", "soon"}

MatchesDatePattern(date) == date = "2024-01-05"

\* dateutil's parser.parse(...).strftime('%Y-%m-%d'); None when it raises
ParseDate(date) == CASE date = "Jan 5, 2024" -> "2024-01-05" [] OTHER -> None

\* what a numeric key that is absent reads as (.get returns None);
\* _clean_parsed_data keeps no negative number
Absent == 0 - 1

\* line items after _clean_parsed_data (a key whose value was null, empty
\* or negative is absent)
GateItemPool ==
    { [name |-> "Widget", quantity |-> 2,    unit_price |-> 3,    sale_price |-> 3],
      [name |-> "Widget", quantity |-> 2,    unit_price |-> 0,    sale_price |-> Absent],
      [name |-> None,     quantity |-> 2,    unit_price |-> 3,    sale_price |-> 3],
      [name |-> "Widget", quantity |-> 0,    unit_price |-> 3,    sale_price |-> 3],
      [name |-> "Widget", quantity |-> Absent, unit_price |-> Absent, sale_price |-> Absent] }

GateData ==
    [type : TransactionTypes \cup {None},
     date : DateValues \cup {None},
     vendor_name : {None, "Acme"},
     channel : {None, "ebay"},
     taxes : {Absent, 0, 2},
     items : SeqsUpTo(GateItemPool, MaxItems)]

\* an entry of missing_fields: 'date', 'items', ... (item = 0) or
\* f'item_{i+1}_{field}' (item = i+1)
Tag(item, field) == [item |-> item, field |-> field]

PriceField(type) == IF type = "purchase" THEN "unit_price" ELSE "sale_price"

\* _validate_date: what it leaves in data['date'] and what it appends to
\* missing_fields
ValidateDate_TwoTags(date) ==
    IF MatchesDatePattern(date) THEN [date |-> date, missing |-> <<>>]
    ELSE IF ParseDate(date) # None
    THEN [date |-> ParseDate(date), missing |-> <<>>]
    ELSE [date |-> None, missing |-> <<Tag(0, "date"), Tag(0, "date")>>]

ValidateDate(date) ==
    IF MatchesDatePattern(date) THEN [date |-> date, missing |-> <<>>]
    ELSE IF ParseDate(date) # None
    THEN [date |-> ParseDate(date), missing |-> <<>>]
    ELSE [date |-> None, missing |-> <<Tag(0, "date")>>]

\* the three checks of one item in the loop of _validate_completeness
ItemMissingFields(item, i, price_field) ==
    (IF item.name # None THEN <<>> ELSE <<Tag(i, "name")>>)
    \o (IF item.quantity # Absent /\ item.quantity > 0
        THEN <<>> ELSE <<Tag(i, "quantity")>>)
    \o (IF item[price_field] # Absent /\ item[price_field] >= 0
        THEN <<>> ELSE <<Tag(i, price_field)>>)

RECURSIVE ItemsMissingFields(_, _, _)
\* the loop over the items, from item i on
ItemsMissingFields(items, i, price_field) ==
    IF i > Len(items) THEN <<>>
    ELSE ItemMissingFields(items[i], i, price_field)
         \o ItemsMissingFields(items, i + 1, price_field)

\* _validate_completeness: the ParseResult and the data as it leaves them
ValidateCompleteness(data) ==
    IF data.type = None
    THEN [status |-> "UNKNOWN_TYPE", completeness |-> "INVALID",
          missing_fields |-> <<>>, data |-> data]
    ELSE
    LET has_date == data.date # None
        dated == IF has_date THEN ValidateDate(data.date)
                 ELSE [date |-> None, missing |-> <<Tag(0, "date")>>]
        counterparty == IF data.type = "purchase" THEN "vendor_name" ELSE "channel"
        has_vendor_or_channel == data[counterparty] # None
        has_taxes == data.taxes # Absent
        price_field == PriceField(data.type)
        item_tags == ItemsMissingFields(data.items, 1, price_field)
        has_all_items ==
            /\ data.items # <<>>
            /\ \A i \in 1..Len(data.items) :
                 ItemMissingFields(data.items[i], i, price_field) = <<>>
        missing ==
            dated.missing
            \o (IF has_vendor_or_channel THEN <<>> ELSE <<Tag(0, counterparty)>>)
            \o (IF has_taxes THEN <<>> ELSE <<Tag(0, "taxes")>>)
            \o (IF data.items = <<>> THEN <<Tag(0, "items")>> ELSE item_tags)
        is_complete == has_date /\ has_vendor_or_channel /\ has_all_items /\ has_taxes
    IN [status |-> IF is_complete THEN "SUCCESS" ELSE "INCOMPLETE",
        completeness |-> IF is_complete THEN "COMPLETE" ELSE "INCOMPLETE",
        missing_fields |-> missing,
        data |-> [data EXCEPT !.date = dated.date]]

NoParseResult ==
    [status |-> None, completeness |-> None, missing_fields |-> <<>>,
     data |-> None]

\* the values a missing field can be filled with
SuppliedValues(tag) ==
    CASE tag.field = "date" -> DateValues
      [] tag.field = "vendor_name" -> {"Acme"}
      [] tag.field = "channel" -> {"ebay"}
      [] tag.field = "taxes" -> {0, 2}
      [] tag.field = "items" -> SeqsUpTo(GateItemPool, MaxItems) \ {<<>>}
      [] tag.field = "name" -> {"Widget"}
      [] tag.field = "quantity" -> {2}
      [] tag.field \in {"unit_price", "sale_price"} -> {0, 3}

\* data with the field of the tag set to the value
WithField(data, tag, value) ==
    IF tag.item = 0 THEN [data EXCEPT ![tag.field] = value]
    ELSE [data EXCEPT !.items[tag.item][tag.field] = value]

\* parse_email: the gate runs on the cleaned data
RunGate ==
    /\ gpc = "parsed"
    /\ UNCHANGED outsideGate
    /\ LET r == ValidateCompleteness(gdata)
       IN /\ gresult' = r
          /\ gdata' = r.data
    /\ gpc' = "validated"
    /\ UNCHANGED <<gbefore, gsupplied, gsupplies>>

\* one field the gate reported missing is filled in; the gate is to run again
SupplyField ==
    /\ gpc = "validated"
    /\ UNCHANGED outsideGate
    /\ gsupplies < MaxSupplies
    /\ \E k \in 1..Len(gresult.missing_fields) :
         LET tag == gresult.missing_fields[k]
         IN \E v \in SuppliedValues(tag) :
              /\ gdata' = WithField(gdata, tag, v)
              /\ gsupplied' = tag
    /\ gbefore' = gresult.missing_fields
    /\ gsupplies' = gsupplies + 1
    /\ gpc' = "parsed"
    /\ UNCHANGED gresult

\* a complete line item and a readable date
CompleteItem == [name |-> "Widget", quantity |-> 2, unit_price |-> 3, sale_price |-> 3]

RECURSIVE WithAllFields(_, _)
\* data with every field of the tags filled with a valid value
WithAllFields(data, tags) ==
    IF tags = <<>> THEN data
    ELSE LET tag == Head(tags)
             v == CASE tag.field = "date" -> "2024-01-05"
                    [] tag.field = "items" -> <<CompleteItem>>
                    [] OTHER -> CHOOSE x \in SuppliedValues(tag) : TRUE
         IN WithAllFields(WithField(data, tag, v), Tail(tags))

\* every field the gate reported missing is filled in; the gate is to run again
SupplyAllFields ==
    /\ gpc = "validated"
    /\ UNCHANGED outsideGate
    /\ gsupplies < MaxSupplies
    /\ gresult.missing_fields # <<>>
    /\ gdata' = WithAllFields(gdata, gresult.missing_fields)
    /\ gsupplied' = Tag(0, "all")
    /\ gbefore' = gresult.missing_fields
    /\ gsupplies' = gsupplies + 1
    /\ gpc' = "parsed"
    /\ UNCHANGED gresult

\* the parser before the gate's first run on some cleaned data
GateStart ==
    /\ gpc = "parsed"
    /\ gdata \in GateData
    /\ gresult = NoParseResult
    /\ gbefore = <<>>
    /\ gsupplied = Tag(0, None)
    /\ gsupplies = 0

\* the parser with nothing parsed
GateAtRest ==
    /\ gpc = "idle"
    /\ gdata = None
    /\ gresult = NoParseResult
    /\ gbefore = <<>>
    /\ gsupplied = Tag(0, None)
    /\ gsupplies = 0

\* C8: for a purchase or a sale the gate returns COMPLETE if and only if
\* its missing_fields list is empty; in particular a result is never
\* COMPLETE with a non-empty missing_fields list.
C8_CompleteIffNothingMissing ==
    (gpc = "validated" /\ gdata.type \in TransactionTypes)
        => (gresult.completeness = "COMPLETE" <=> gresult.missing_fields = <<>>)

\* C9 as stated: supplying any field that was missing, the items list
\* included, and running the gate again gives a missing_fields list no
\* longer than before.
C9_SupplyNeverLengthens ==
    (gpc = "validated" /\ gsupplies > 0 /\ gsupplied.field # "all")
        => Len(gresult.missing_fields) <= Len(gbefore)

\* C9: supplying a missing header field (date, vendor_name, channel, taxes)
\* or a missing field of a line item and running the gate again gives a
\* missing_fields list no longer than before; supplying valid values for
\* all the missing fields yields COMPLETE.
C9_SupplyFieldMonotone ==
    (gpc = "validated" /\ gsupplies > 0)
        => /\ gsupplied.field \notin {"items", "all"}
                => Len(gresult.missing_fields) <= Len(gbefore)
           /\ gsupplied.field = "all"
                => /\ gresult.completeness = "COMPLETE"
                   /\ gresult.missing_fields = <<>>

\* a missing item field was supplied and the list got shorter, short of
\* complete
C9_FieldSupplied ==
    /\ gpc = "validated"
    /\ gsupplied.item > 0
    /\ Len(gresult.missing_fields) < Len(gbefore)
    /\ gresult.completeness = "INCOMPLETE"

(***************************************************************************)
(* InventoryReconciliationApp: the transaction handlers.                   *)
(***************************************************************************)
\* the members of the enum ParseStatus
ParseStatusMembers ==
    {"SUCCESS", "INCOMPLETE", "PARTIAL", "FAILED", "UNKNOWN_TYPE",
     "VALIDATION_ERROR", "API_ERROR"}

\* the fields of the dataclass ParseResult
ParseResultFields ==
    {"status", "data", "errors", "warnings", "missing_fields",
     "incomplete_items", "confidence_score", "parse_time", "requires_review",
     "completeness", "completeness_details"}

\* the public methods of AirtableClient
AirtableMethods ==
    {"process_transaction", "create_purchase", "create_sale",
     "get_records_ready_for_zoho_sync", "mark_record_synced_to_zoho"}

\* what the extraction of an e-mail gives before the gate: cleaned data, or
\* no data with one of these statuses
ExtractionFailures == {"FAILED", "API_ERROR"}

NoExtraction ==
    [type |-> None, date |-> None, vendor_name |-> None, channel |-> None,
     taxes |-> Absent, items |-> <<>>]

\* the cleaned data the e-mails of the model carry: one line item, the
\* header complete but for the taxes
SampleData ==
    {[type |-> t, date |-> "2024-01-05", vendor_name |-> "Acme",
      channel |-> "ebay", taxes |-> 2, items |-> <<item>>] :
        t \in TransactionTypes, item \in GateItemPool}

EmailContents ==
    [outcome : {"parsed"}, data : SampleData]
        \cup [outcome : ExtractionFailures, data : {NoExtraction}]

\* EmailParser.parse_email on the e-mail
ParseEmail(email) ==
    IF email.outcome = "parsed" THEN ValidateCompleteness(email.data)
    ELSE [status |-> email.outcome, completeness |-> "INVALID",
          missing_fields |-> <<>>, data |-> NoExtraction]

HeaderOf(data) ==
    [date |-> data.date, vendor_name |-> data.vendor_name,
     channel |-> data.channel, taxes |-> data.taxes]

\* the state the handlers read and write
Engine ==
    [inventory |-> inventory, transactions |-> transactions,
     resolutions |-> resolutions, quantity_writes |-> quantity_writes,
     pending_reviews |-> pending_reviews, stats |-> stats,
     notifications |-> notifications, zoho_calls |-> zoho_calls]

Commit(e) ==
    /\ inventory' = e.inventory
    /\ transactions' = e.transactions
    /\ resolutions' = e.resolutions
    /\ quantity_writes' = e.quantity_writes
    /\ pending_reviews' = e.pending_reviews
    /\ stats' = e.stats
    /\ notifications' = e.notifications
    /\ zoho_calls' = e.zoho_calls

Notify_Silent(e, title) == e

\* a call of one of the send_* methods of the notifier
Notify(e, title) == [e EXCEPT !.notifications = Append(@, title)]

Count(e, counter) == [e EXCEPT !.stats[counter] = @ + 1]

RECURSIVE ApplyItems(_, _, _, _, _)
\* the loop of process_transaction from item i on, every request answered:
\* e with the inventory updated, and the items_processed of the result
ApplyItems(e, type, items, i, processed) ==
    IF i > Len(items) THEN [e |-> e, items_processed |-> processed]
    ELSE LET item == [sku |-> None, upc |-> None, name |-> items[i].name,
                      quantity |-> items[i].quantity]
             step(r) ==
                 LET q == NewQuantity(r.current_quantity,
                                      QuantityChange(type, item.quantity))
                 IN [e |-> [e EXCEPT
                              !.inventory = [r.inv EXCEPT ![r.rec].quantity = q],
                              !.quantity_writes = @ \cup {q},
                              !.resolutions = Append(@,
                                  [item |-> [sku |-> item.sku, upc |-> item.upc,
                                             name |-> item.name],
                                   record_id |-> r.rec, sku |-> r.sku,
                                   action |-> r.action])],
                     processed |-> Append(processed,
                                  [name |-> item.name, sku |-> r.sku,
                                   quantity |-> item.quantity,
                                   inventory_record_id |-> r.rec])]
         IN With(With(FindOrCreateInventoryItem(e.inventory, item, {}), step),
                 LAMBDA s : ApplyItems(s.e, type, items, i + 1, s.processed))

\* _build_clean_data_from_airtable: the result of process_transaction has
\* no vendor_name / channel key and its items_processed no price key
BuildCleanDataFromAirtable(items_processed, type) ==
    [type |-> type, contact |-> None,
     items |-> [k \in 1..Len(items_processed) |->
                  [sku |-> items_processed[k].sku,
                   name |-> items_processed[k].name,
                   quantity |-> items_processed[k].quantity,
                   price |-> 0]]]

\* processed_items of process_transaction when every item was processed:
\* the copies of the transaction's items, each with the SKU resolved
ProcessedItems(items, items_processed) ==
    [k \in 1..Len(items_processed) |->
        [name |-> items[k].name, sku |-> items_processed[k].sku,
         quantity |-> items[k].quantity, unit_price |-> items[k].unit_price,
         sale_price |-> items[k].sale_price]]

\* _process_complete_transaction with the ledger store answering every
\* request; `avail` is zoho.is_available
ProcessCompleteTransaction(e, data, seq_num, avail) ==
    LET after(a) ==
          LET saved == [a.e EXCEPT !.transactions = Append(@,
                           TransactionRecord(data.type, HeaderOf(data),
                               ProcessedItems(data.items, a.items_processed),
                               "airtable_complete", FALSE, <<>>, seq_num))]
          IN IF a.items_processed = <<>>
             THEN Notify(Count(a.e, "errors"), "Airtable Processing Failed")
             ELSE IF avail
             THEN [Count(saved, "airtable_saved") EXCEPT !.zoho_calls = Append(@,
                      BuildCleanDataFromAirtable(a.items_processed, data.type))]
             ELSE Notify(Count(saved, "airtable_saved"), "Zoho Unavailable")
    IN With(ApplyItems(e, data.type, data.items, 1, <<>>), after)

\* _process_incomplete_transaction; store_ok says whether the request of
\* create_purchase / create_sale succeeds
ProcessIncompleteTransaction(e, data, missing, seq_num, store_ok) ==
    IF ~store_ok
    THEN Notify(e, "Incomplete Data Processing Failed")
    ELSE LET id == Len(e.transactions) + 1
             saved == [e EXCEPT
                 !.transactions = Append(@,
                     TransactionRecord(data.type, HeaderOf(data), data.items,
                         "airtable_incomplete", TRUE, missing, seq_num)),
                 !.pending_reviews = @ @@ (id :>
                     [data |-> data, type |-> data.type,
                      missing_fields |-> missing])]
             queued == Count(saved, "human_reviews_required")
         IN IF "confidence" \in ParseResultFields
            THEN Notify(queued, "Human Review Required")
            ELSE Notify(queued, "Incomplete Data Processing Failed")

\* the ids _process_pending_reviews finds resolved: it asks the store only
\* if the client has a get_record method, and builds the ParseResult of a
\* resolved record with a `confidence` argument
ResolvedReviews(e) ==
    {id \in DOMAIN e.pending_reviews :
        /\ "get_record" \in AirtableMethods
        /\ ~e.transactions[id].requires_review
        /\ "confidence" \in ParseResultFields}

RECURSIVE ProcessResolved(_, _, _)
\* the loop of _process_pending_reviews over the resolved ids, ascending
ProcessResolved(e, ids, avail) ==
    IF ids = {} THEN e
    ELSE LET id == CHOOSE k \in ids : \A j \in ids : k <= j
             record == e.transactions[id]
             updated == [type |-> record.type, date |-> record.header.date,
                         vendor_name |-> record.header.vendor_name,
                         channel |-> record.header.channel,
                         taxes |-> record.header.taxes,
                         items |-> record.items]
         IN With(ProcessCompleteTransaction(e, updated, record.email_seq_num, avail),
                 LAMBDA e2 : ProcessResolved(e2, ids \ {id}, avail))

ProcessPendingReviews_DropsAll(e, avail) ==
    [e EXCEPT !.pending_reviews = <<>>]

\* _process_pending_reviews
ProcessPendingReviews(e, avail) ==
    With(ResolvedReviews(e), LAMBDA resolved :
        With(ProcessResolved(e, resolved, avail), LAMBDA done :
            [done EXCEPT !.pending_reviews =
                [id \in DOMAIN e.pending_reviews \ resolved |->
                    e.pending_reviews[id]]]))

\* process_email: the state it leaves and the branch it ended in
ProcessEmail(entered, seq_num, email, avail, store_ok) ==
    LET e == Count(entered, "emails_processed")
        generic_error ==
            [e |-> Notify(Count(e, "errors"), "Email Processing Error"),
             route |-> "error"]
        routing(parse_result) ==
            IF parse_result.status = "FAILED"
            THEN [e |-> Notify(Count(e, "parse_failed"), "Email Parsing Failed"),
                  route |-> "parse_failed"]
            ELSE IF "NOT_INVENTORY" \notin ParseStatusMembers
            THEN generic_error
            ELSE IF parse_result.status = "NOT_INVENTORY"
            THEN [e |-> e, route |-> "skipped"]
            ELSE IF parse_result.data = NoExtraction
            THEN [e |-> Count(e, "errors"), route |-> "no_data"]
            ELSE IF "confidence" \notin ParseResultFields
            THEN generic_error
            ELSE IF parse_result.completeness = "COMPLETE"
            THEN [e |-> ProcessCompleteTransaction(e, parse_result.data,
                                                   seq_num, avail),
                  route |-> "complete"]
            ELSE IF parse_result.completeness = "INCOMPLETE"
            THEN [e |-> Count(ProcessIncompleteTransaction(e, parse_result.data,
                                  parse_result.missing_fields, seq_num, store_ok),
                              "incomplete_data"),
                  route |-> "incomplete"]
            ELSE [e |-> Count(e, "errors"), route |-> "invalid"]
    IN With(ParseEmail(email), routing)

(***************************************************************************)
(* InventoryReconciliationApp.run_once, step by step.                      *)
(***************************************************************************)
\* the variables of the clients that a step of the application leaves alone
outsideApp ==
    <<postingVars, gateVars, auxVars, lpc, ldata, lidx, lresult, lfaults,
      lruns>>

\* the mailbox receives an e-mail
EmailArrives ==
    /\ Len(emails) < MaxEmails
    /\ \E c \in EmailContents :
         emails' = Append(emails, c)
    /\ unread' = unread \cup {Len(emails) + 1}
    /\ UNCHANGED <<rpc, new_emails, ridx, processed_seq_nums, pending_reviews,
                   stats, notifications, zoho_calls, routed, cycles,
                   review_checked, direct_calls>>
    /\ UNCHANGED <<inventory, transactions, resolutions, quantity_writes>>
    /\ UNCHANGED outsideApp

\* the IMAP sequence number of the e-mail that arrived m-th: its place
\* among the e-mails that are in the mailbox
SeqNumOf(m) == m - Cardinality({x \in expunged : x < m})

\* the e-mail that has the sequence number
MessageAt(seq_num) ==
    CHOOSE m \in (1..Len(emails)) \ expunged : SeqNumOf(m) = seq_num

\* an e-mail is removed from the mailbox (deleted or archived by its
\* owner) between two cycles; the later e-mails move up by one number
Expunge ==
    /\ rpc = "idle"
    /\ \E m \in (1..Len(emails)) \ expunged :
         /\ expunged' = expunged \cup {m}
         /\ unread' = unread \ {m}
    /\ UNCHANGED <<emails, rpc, new_emails, ridx, processed_seq_nums,
                   pending_reviews, stats, notifications, zoho_calls, routed,
                   cycles, review_checked, direct_calls>>
    /\ UNCHANGED <<postingVars, ledgerVars, gateVars, api_call, embed_call,
                   handed>>

RECURSIVE Ascending(_)
\* the seq_nums of the set in ascending order
Ascending(S) ==
    IF S = {} THEN <<>>
    ELSE LET m == CHOOSE k \in S : \A j \in S : k <= j
         IN <<m>> \o Ascending(S \ {m})

\* run_once up to its loop: the unread e-mails are fetched; with none of
\* them it returns
FetchUnreadEmails ==
    /\ rpc = "idle"
    /\ cycles < MaxCycles
    /\ cycles' = cycles + 1
    /\ new_emails' = Ascending({SeqNumOf(m) : m \in unread})
    /\ ridx' = 1
    /\ rpc' = IF unread = {} THEN "idle" ELSE "loop"
    /\ UNCHANGED <<emails, unread, processed_seq_nums, pending_reviews, stats,
                   notifications, zoho_calls, routed, review_checked,
                   direct_calls>>
    /\ UNCHANGED <<inventory, transactions, resolutions, quantity_writes>>
    /\ UNCHANGED outsideApp

CurrentEmail_Backwards == new_emails[Len(new_emails) + 1 - ridx]

\* the e-mail the loop of run_once is at: `for i, email in
\* enumerate(new_emails, 1)`
CurrentEmail == new_emails[ridx]

\* what mark_as_processed can end with: True, False (a store command
\* refused, any exception of its own try block), or the exception of
\* connect(), which ensure_connection calls outside every try block when
\* the connection was lost and which re-raises its last failed attempt
MarkOutcomes == {"marked", "failed", "raised"}

\* one iteration of the loop of run_once: process_email and
\* mark_as_processed for a seq_num not processed before.  The exception
\* of mark_as_processed ends the cycle in the except clause of run_once.
HandleEmail ==
    /\ rpc = "loop"
    /\ ridx <= Len(new_emails)
    /\ LET seq_num == CurrentEmail
           message == MessageAt(seq_num)
       IN IF seq_num \in processed_seq_nums
          THEN UNCHANGED <<unread, processed_seq_nums, pending_reviews, stats,
                           notifications, zoho_calls, routed, inventory,
                           transactions, resolutions, quantity_writes,
                           handed, rpc>>
          ELSE \E store_ok \in BOOLEAN, mark \in MarkOutcomes :
                 \E r \in {ProcessEmail(Engine, seq_num, emails[message],
                                         is_available, store_ok)} :
                    /\ Commit(IF mark = "raised"
                              THEN Notify(r.e, "Email Processing Cycle Failed")
                              ELSE r.e)
                    /\ routed' = routed @@ (seq_num :> r.route)
                    /\ handed' = Append(handed, message)
                    /\ unread' = IF mark = "marked" THEN unread \ {message}
                                 ELSE unread
                    /\ processed_seq_nums' =
                          IF mark = "raised" THEN processed_seq_nums
                          ELSE processed_seq_nums \cup {seq_num}
                    /\ rpc' = IF mark = "raised" THEN "idle" ELSE rpc
    /\ ridx' = ridx + 1
    /\ UNCHANGED <<emails, new_emails, cycles, review_checked, direct_calls>>
    /\ UNCHANGED <<postingVars, gateVars, api_call, embed_call, expunged, lpc,
                   ldata, lidx, lresult, lfaults, lruns>>

\* the ids of the review queue whose record in the store is resolved
ResolvedInStore ==
    {id \in DOMAIN pending_reviews : ~transactions[id].requires_review}

\* run_once after its loop: _process_pending_reviews
CheckPendingReviews ==
    /\ rpc = "loop"
    /\ ridx > Len(new_emails)
    /\ \E e \in {ProcessPendingReviews(Engine, is_available)} : Commit(e)
    /\ review_checked' = review_checked \cup ResolvedInStore
    /\ rpc' = "idle"
    /\ UNCHANGED <<emails, unread, new_emails, ridx, processed_seq_nums,
                   routed, cycles, direct_calls>>
    /\ UNCHANGED outsideApp

\* a reviewer completes the record of a pending review in the store and
\* clears its review flag
HumanResolves ==
    /\ \E id \in DOMAIN pending_reviews :
         /\ transactions[id].requires_review
         /\ LET record == transactions[id]
                data == pending_reviews[id].data
                filled == WithAllFields(data, record.missing_fields)
            IN transactions' = [transactions EXCEPT ![id] =
                 TransactionRecord(record.type, HeaderOf(filled), filled.items,
                     record.processing_status, FALSE, <<>>,
                     record.email_seq_num)]
    /\ UNCHANGED <<emails, unread, rpc, new_emails, ridx, processed_seq_nums,
                   pending_reviews, stats, notifications, zoho_calls, routed,
                   cycles, review_checked, direct_calls>>
    /\ UNCHANGED <<inventory, resolutions, quantity_writes>>
    /\ UNCHANGED outsideApp

\* the extraction data a record of the transaction log holds
RecordData(record) ==
    [type |-> record.type, date |-> record.header.date,
     vendor_name |-> record.header.vendor_name,
     channel |-> record.header.channel, taxes |-> record.header.taxes,
     items |-> record.items]

\* a reviewer fills one of the missing fields of a record not edited before
\* and leaves its review flag set
HumanFillsField ==
    /\ \E id \in DOMAIN pending_reviews :
         /\ transactions[id].requires_review
         /\ RecordData(transactions[id]) = pending_reviews[id].data
         /\ \E k \in 1..Len(pending_reviews[id].missing_fields) :
              LET tag == pending_reviews[id].missing_fields[k]
                  filled == WithAllFields(pending_reviews[id].data, <<tag>>)
              IN transactions' = [transactions EXCEPT
                     ![id].header = HeaderOf(filled),
                     ![id].items = filled.items]
    /\ UNCHANGED <<emails, unread, rpc, new_emails, ridx, processed_seq_nums,
                   pending_reviews, stats, notifications, zoho_calls, routed,
                   cycles, review_checked, direct_calls>>
    /\ UNCHANGED <<inventory, resolutions, quantity_writes>>
    /\ UNCHANGED outsideApp

\* _process_complete_transaction called with the gate's result for some
\* cleaned data
CompleteTransactionArrives ==
    /\ direct_calls < MaxDirectCalls
    /\ direct_calls' = direct_calls + 1
    /\ \E d \in SampleData :
         \E parse_result \in {ValidateCompleteness(d)} :
            /\ parse_result.completeness = "COMPLETE"
            /\ \E e \in {ProcessCompleteTransaction(Engine, parse_result.data,
                                                     0, is_available)} :
                 Commit(e)
    /\ UNCHANGED <<emails, unread, rpc, new_emails, ridx, processed_seq_nums,
                   routed, cycles, review_checked>>
    /\ UNCHANGED outsideApp

\* _process_complete_transaction called for a transaction that arrives
\* after the accounting client has run a workflow
LaterCompleteTransaction ==
    /\ zpc = "idle"
    /\ zruns > 0
    /\ direct_calls < MaxLaterTransactions
    /\ CompleteTransactionArrives

\* _process_complete_transaction up to its call of _execute_zoho_workflow
\* (or to its end, when the client is unavailable or nothing was saved)
SaveCompleteTransaction ==
    /\ zpc = "idle"
    /\ Len(zoho_calls) = zruns
    /\ direct_calls < MaxEndToEnd
    /\ CompleteTransactionArrives

\* _execute_zoho_workflow up to the return of process_complete_data's
\* first statements: the clean data built from the ledger's result is
\* handed to the client
ExecuteZohoWorkflow ==
    /\ zpc = "idle"
    /\ Len(zoho_calls) > zruns
    /\ StartWorkflow(zoho_calls[zruns + 1])
    /\ UNCHANGED outsidePosting

\* the status _execute_zoho_workflow leaves on the record: a PATCH of
\* mark_record_synced_to_zoho after success (patch_ok: it was answered),
\* mark_record_zoho_failed after failure if the client has that method
StatusAfterWorkflow(status, success, patch_ok) ==
    IF success
    THEN (IF "mark_record_synced_to_zoho" \in AirtableMethods /\ patch_ok
          THEN "zoho_synced" ELSE status)
    ELSE (IF "mark_record_zoho_failed" \in AirtableMethods /\ patch_ok
          THEN "zoho_sync_failed" ELSE status)

RecordAfterWorkflow_RolledBack(record, success, patch_ok) ==
    IF success
    THEN [record EXCEPT !.processing_status =
            StatusAfterWorkflow(@, success, patch_ok)]
    ELSE [record EXCEPT !.items = <<>>]

\* the record as _execute_zoho_workflow leaves it in the store
RecordAfterWorkflow(record, success, patch_ok) ==
    [record EXCEPT !.processing_status =
        StatusAfterWorkflow(@, success, patch_ok)]

\* _execute_zoho_workflow after process_complete_data returned: the record
\* of the transaction is the one the ledger update just created
HandleZohoResult ==
    /\ zpc = "done"
    /\ Len(zoho_calls) = zruns
    /\ zruns > 0
    /\ \E patch_ok \in BOOLEAN :
         transactions' = [transactions EXCEPT
             ![Len(transactions)] =
                 RecordAfterWorkflow(@, zresult.success, patch_ok)]
    /\ stats' = IF zresult.success THEN stats
                ELSE [stats EXCEPT !.errors = @ + 1]
    /\ notifications' = Append(notifications,
                            IF zresult.success THEN "Workflow Success"
                            ELSE "Workflow Error")
    /\ zpc' = "idle"
    /\ zdata' = NoData
    /\ zidx' = 1
    /\ zlocal' = EmptyLocal
    /\ zresult' = EmptyResult
    /\ http_log' = <<>>
    /\ create_calls' = create_calls
    /\ n401' = 0
    /\ UNCHANGED <<is_available, config, cache, zruns>>
    /\ UNCHANGED <<emails, unread, rpc, new_emails, ridx, processed_seq_nums,
                   pending_reviews, zoho_calls, routed, cycles, review_checked,
                   direct_calls>>
    /\ UNCHANGED <<inventory, resolutions, quantity_writes>>
    /\ UNCHANGED <<gateVars, auxVars, lpc, ldata, lidx, lresult, lfaults,
                   lruns>>

\* _process_incomplete_transaction called with the gate's result for some
\* cleaned data
IncompleteTransactionArrives ==
    /\ direct_calls < MaxDirectCalls
    /\ direct_calls' = direct_calls + 1
    /\ \E d \in SampleData, store_ok \in BOOLEAN :
         \E parse_result \in {ValidateCompleteness(d)} :
            /\ parse_result.completeness = "INCOMPLETE"
            /\ \E e \in {ProcessIncompleteTransaction(Engine, parse_result.data,
                              parse_result.missing_fields, 0, store_ok)} :
                 Commit(e)
    /\ UNCHANGED <<emails, unread, rpc, new_emails, ridx, processed_seq_nums,
                   routed, cycles, review_checked>>
    /\ UNCHANGED outsideApp

\* the application is between two calls of the accounting client: no
\* workflow is running and none is waiting for its result to be handled
BetweenWorkflows == zpc = "idle" /\ Len(zoho_calls) = zruns

\* the e-mails and transactions the run has taken in so far
TakenIn == Len(emails) + direct_calls

\* _process_complete_transaction when process_transaction returns without
\* success, the ledger store refusing the requests for the items
CompleteTransactionLedgerFails ==
    /\ BetweenWorkflows
    /\ TakenIn < MaxAnnounced
    /\ direct_calls' = direct_calls + 1
    /\ \E d \in SampleData :
         /\ ValidateCompleteness(d).completeness = "COMPLETE"
         /\ Commit(Notify(Count(Engine, "errors"), "Airtable Processing Failed"))
    /\ UNCHANGED <<emails, unread, rpc, new_emails, ridx, processed_seq_nums,
                   routed, cycles, review_checked>>
    /\ UNCHANGED outsideApp

\* the handlers and the e-mail loop of one run, one call at a time
AnnouncedComplete ==
    TakenIn < MaxAnnounced /\ SaveCompleteTransaction

AnnouncedIncomplete ==
    BetweenWorkflows /\ TakenIn < MaxAnnounced /\ IncompleteTransactionArrives

AnnouncedEmailArrives ==
    BetweenWorkflows /\ TakenIn < MaxAnnounced /\ EmailArrives

AnnouncedFetch ==
    BetweenWorkflows /\ FetchUnreadEmails

AnnouncedHandleEmail ==
    BetweenWorkflows /\ HandleEmail

AnnouncedCheckPendingReviews ==
    BetweenWorkflows /\ CheckPendingReviews

\* _process_pending_reviews called between two cycles
ReviewPass ==
    /\ pending_reviews # <<>>
    /\ \E e \in {ProcessPendingReviews(Engine, is_available)} : Commit(e)
    /\ review_checked' = review_checked \cup ResolvedInStore
    /\ UNCHANGED <<emails, unread, rpc, new_emails, ridx, processed_seq_nums,
                   routed, cycles, direct_calls>>
    /\ UNCHANGED outsideApp

EmptyStats ==
    [emails_processed |-> 0, parse_failed |-> 0, incomplete_data |-> 0,
     airtable_saved |-> 0, human_reviews_required |-> 0, errors |-> 0]

\* the application after __init__
AppAtRest ==
    /\ emails = <<>>
    /\ unread = {}
    /\ rpc = "idle"
    /\ new_emails = <<>>
    /\ ridx = 1
    /\ processed_seq_nums = {}
    /\ pending_reviews = <<>>
    /\ stats = EmptyStats
    /\ notifications = <<>>
    /\ zoho_calls = <<>>
    /\ routed = <<>>
    /\ cycles = 0
    /\ review_checked = {}
    /\ direct_calls = 0


\* the exceptions an `except Exception` clause catches, of those the
\* model raises: KeyboardInterrupt derives from BaseException only
CaughtByExceptException == {"ValueError", "HTTPError", "ConnectionError",
                            "AttributeError", "KeyError"}

\* SIGINT arrives while run is in its loop: Python raises KeyboardInterrupt
\* in the main thread where it is.  No clause of the handlers or of the
\* workflows catches it, so the frames of a call in progress are left and
\* run's `except KeyboardInterrupt: break` ends the loop; _shutdown_cleanup
\* sends its notification
KeyboardInterruptArrives ==
    /\ rpc # "stopped"
    /\ "KeyboardInterrupt" \notin CaughtByExceptException
    /\ rpc' = "stopped"
    /\ zpc' = "idle"
    /\ zdata' = NoData
    /\ zidx' = 1
    /\ zlocal' = EmptyLocal
    /\ zresult' = EmptyResult
    /\ notifications' = Append(notifications, "System Shutdown")
    /\ UNCHANGED <<is_available, config, cache, http_log, create_calls, n401,
                   zruns>>
    /\ UNCHANGED <<ledgerVars, gateVars, auxVars>>
    /\ UNCHANGED <<emails, unread, new_emails, ridx, processed_seq_nums,
                   pending_reviews, stats, zoho_calls, routed, cycles,
                   review_checked, direct_calls>>

\* the handler and the workflow call while run is in its loop
RunningSaveCompleteTransaction == rpc # "stopped" /\ SaveCompleteTransaction

RunningExecuteZohoWorkflow == rpc # "stopped" /\ ExecuteZohoWorkflow

PostsAfterLedger_WhenAvailable(ledger_result, avail) == avail

\* `if airtable_result.get('success'):` and, inside it, `if
\* self.zoho.is_available:` guard the call of _execute_zoho_workflow
PostsAfterLedger(ledger_result, avail) == ledger_result.success /\ avail

\* _process_complete_transaction after process_transaction returned its
\* result, whatever the ledger store answered to the requests of the call:
\* the clean data of the posting workflow is built from items_processed
HandOver ==
    /\ lpc = "done"
    /\ lpc' = "handed_over"
    /\ zoho_calls' =
         IF PostsAfterLedger(lresult, is_available)
         THEN Append(zoho_calls,
                     BuildCleanDataFromAirtable(lresult.items_processed,
                                                ldata.type))
         ELSE zoho_calls
    /\ stats' = IF lresult.success
                THEN [stats EXCEPT !.airtable_saved = @ + 1]
                ELSE [stats EXCEPT !.errors = @ + 1]
    /\ notifications' =
         IF ~lresult.success
         THEN Append(notifications, "Airtable Processing Failed")
         ELSE IF ~is_available THEN Append(notifications, "Zoho Unavailable")
         ELSE notifications
    /\ UNCHANGED <<inventory, transactions, ldata, lidx, lresult, resolutions,
                   quantity_writes, lfaults, lruns>>
    /\ UNCHANGED <<emails, unread, rpc, new_emails, ridx, processed_seq_nums,
                   pending_reviews, routed, cycles, review_checked,
                   direct_calls>>
    /\ UNCHANGED <<postingVars, gateVars, auxVars>>

\* _process_complete_transaction returns
HandlerReturn ==
    /\ lpc = "handed_over"
    /\ lpc' = "idle"
    /\ ldata' = NoData
    /\ lidx' = 1
    /\ lresult' = EmptyLedgerResult
    /\ UNCHANGED <<inventory, transactions, resolutions, quantity_writes,
                   lfaults, lruns>>
    /\ UNCHANGED outsideLedger

\* C37: the posting workflow is called only where the ledger store has
\* just reported success for the transaction, with clean data whose items
\* are the items the ledger processed, in their order and with the SKUs
\* it resolved, the failed items left out; a transaction none of whose
\* items was processed gets no record in the transaction log, is reported
\* without success and causes no call and no request to the backend.
C37_PostedAfterLedgerSuccess ==
    [][/\ zoho_calls' # zoho_calls =>
            /\ lpc = "done"
            /\ lresult.success
            /\ lresult.transaction_record_id = Len(transactions)
            /\ Len(zoho_calls') = Len(zoho_calls) + 1
            /\ LET items == zoho_calls'[Len(zoho_calls')].items
               IN /\ Len(items) = Len(lresult.items_processed)
                  /\ Len(items) = Len(ldata.items) - Len(lresult.items_failed)
                  /\ Len(items) >= 1
                  /\ \A k \in DOMAIN items :
                        /\ items[k].name = lresult.items_processed[k].name
                        /\ items[k].sku = lresult.items_processed[k].sku
                        /\ items[k].quantity = lresult.items_processed[k].quantity
                        /\ transactions[Len(transactions)].items[k].sku
                              = items[k].sku
       /\ (lpc = "items" /\ lpc' = "done" /\ lresult.items_processed = <<>>)
            => /\ transactions' = transactions
               /\ ~lresult'.success
       /\ (lpc = "done" /\ lpc' # "done" /\ ~lresult.success)
            => /\ zoho_calls' = zoho_calls
               /\ http_log' = http_log
      ]_vars

\* of a transaction of two items the second failed in the ledger, and the
\* posting workflow was called with the first alone
C37_PostedWithoutFailedItem ==
    /\ lpc = "handed_over"
    /\ Len(ldata.items) = 2
    /\ lresult.items_failed = <<ldata.items[2].name>>
    /\ zoho_calls # <<>>
    /\ Len(zoho_calls[Len(zoho_calls)].items) = 1
    /\ zoho_calls[Len(zoho_calls)].items[1].name = ldata.items[1].name

(***************************************************************************)
(* DiscordNotifier._send_embed.                                            *)
(***************************************************************************)
\* what the webhook can answer a POST with: 204, 429 (rate limit), another
\* status, or no answer (requests.post raises)
SinkAnswers == {"204", "429", "500", "exception"}

RetryAfterError_Unguarded(retry_on_fail, answers, posts) ==
    IF retry_on_fail
    THEN [raised |-> answers[posts + 1] = "exception", posts |-> posts + 1]
    ELSE [raised |-> FALSE, posts |-> posts]

\* the clause `except Exception` of _send_embed, entered after the given
\* number of POSTs: with retry_on_fail one more POST inside `try: ...
\* except:`, so that its exception goes no further
RetryAfterError(retry_on_fail, answers, posts) ==
    IF retry_on_fail
    THEN [raised |-> FALSE, posts |-> posts + 1]
    ELSE [raised |-> FALSE, posts |-> posts]

\* _send_embed(embed): whether it raises, and the POSTs it sent.  The retry
\* after a status other than 204 and 429 is inside the try block, so its
\* exception is handled by the except clause, which retries once more.
SendEmbed(webhook_url, retry_on_fail, answers) ==
    IF ~webhook_url THEN [raised |-> FALSE, posts |-> 0]
    ELSE IF answers[1] = "exception"
    THEN RetryAfterError(retry_on_fail, answers, 1)
    ELSE IF answers[1] = "204" THEN [raised |-> FALSE, posts |-> 1]
    ELSE IF retry_on_fail /\ answers[1] # "429"
    THEN IF answers[2] = "exception"
         THEN RetryAfterError(retry_on_fail, answers, 2)
         ELSE [raised |-> FALSE, posts |-> 2]
    ELSE [raised |-> FALSE, posts |-> 1]

\* one of the send_* methods calls _send_embed while the application is
\* between two e-mails; an exception _send_embed raised would leave the
\* method and be caught by the handler that called it, which counts an
\* error
SendNotification ==
    /\ \E webhook_url \in BOOLEAN, retry_on_fail \in BOOLEAN,
          answers \in [1..MaxAnswers -> SinkAnswers] :
         LET r == SendEmbed(webhook_url, retry_on_fail, answers)
         IN /\ embed_call' = [made |-> TRUE, webhook_url |-> webhook_url,
                              retry_on_fail |-> retry_on_fail,
                              answers |-> answers, raised |-> r.raised,
                              posts |-> r.posts]
            /\ stats' = IF r.raised THEN [stats EXCEPT !.errors = @ + 1]
                        ELSE stats
    /\ UNCHANGED <<emails, unread, rpc, new_emails, ridx, processed_seq_nums,
                   pending_reviews, notifications, zoho_calls, routed, cycles,
                   review_checked, direct_calls>>
    /\ UNCHANGED <<postingVars, ledgerVars, gateVars, api_call, expunged,
                   handed>>

\* C34: a failure of the notification sink never leaves _send_embed: the
\* call returns normally whatever the sink answers to the POST and to the
\* retries, with at most three POSTs, and the counters, the transaction
\* log and the review queue of the application are as they were.
C34_SinkFailureSwallowed ==
    [][embed_call' # embed_call =>
          /\ ~embed_call'.raised
          /\ embed_call'.posts <= 3
          /\ (embed_call'.posts > 1 => embed_call'.retry_on_fail)
          /\ UNCHANGED <<stats, transactions, pending_reviews, inventory>>
      ]_vars

\* the POST was answered with a server error and both retries raised
C34_BothRetriesFailed ==
    /\ embed_call.made
    /\ embed_call.answers = <<"500", "exception", "exception">>
    /\ embed_call.retry_on_fail
    /\ embed_call.posts = 3

(***************************************************************************)
(* Properties of the application.                                          *)
(***************************************************************************)
\* the records of the transaction log written for the e-mail seq_num
RecordsOf(seq_num) ==
    {k \in DOMAIN transactions : transactions[k].email_seq_num = seq_num}

\* the e-mails process_email has handled whose extraction gave a transaction
\* of the given completeness with a parse status other than FAILED
Handled(completeness) ==
    {s \in DOMAIN routed :
        /\ ParseEmail(emails[s]).status # "FAILED"
        /\ ParseEmail(emails[s]).data # NoExtraction
        /\ ParseEmail(emails[s]).completeness = completeness}

\* C6: process_email passes every e-mail whose extraction is COMPLETE to
\* the ledger update and the posting workflow and every one whose
\* extraction is INCOMPLETE to the review queue; none of them ends in its
\* generic error path.
C6_RoutedByCompleteness ==
    /\ \A s \in Handled("COMPLETE") : routed[s] = "complete"
    /\ \A s \in Handled("INCOMPLETE") : routed[s] = "incomplete"

\* C3: every extracted transaction is propagated exactly once: a handled
\* e-mail with a COMPLETE transaction has exactly one record in the
\* transaction log, and no e-mail has more than one.
C3_PropagatedExactlyOnce ==
    /\ \A s \in Handled("COMPLETE") : Cardinality(RecordsOf(s)) = 1
    /\ \A s \in DOMAIN routed : Cardinality(RecordsOf(s)) <= 1

\* C7: every transaction the gate classifies INCOMPLETE is saved to the
\* transaction log and entered in the review queue, with no inventory
\* quantity written and no call of the accounting backend.
C7_IncompleteSavedAndQueued ==
    \A s \in Handled("INCOMPLETE") :
        /\ \E k \in RecordsOf(s) :
              /\ transactions[k].requires_review
              /\ k \in DOMAIN pending_reviews
        /\ quantity_writes = {}
        /\ zoho_calls = <<>>

\* C20: a complete purchase e-mail the program has handled has its record
\* in the transaction log, the quantity of each of its items added to the
\* ledger, and has been handed to the posting workflow, which creates its
\* purchase order and its bill.
C20_CompletePurchasePosted ==
    \A s \in Handled("COMPLETE") :
        ParseEmail(emails[s]).data.type = "purchase" =>
            /\ RecordsOf(s) # {}
            /\ \A k \in DOMAIN ParseEmail(emails[s]).data.items :
                  \E w \in quantity_writes :
                      w >= ParseEmail(emails[s]).data.items[k].quantity
            /\ \E k \in DOMAIN zoho_calls : zoho_calls[k].type = "purchase"

\* the workflows handed to the accounting client whose result
\* _execute_zoho_workflow has not handled yet
InFlight == (Len(zoho_calls) - zruns) + (IF zpc = "idle" THEN 0 ELSE 1)

\* the e-mails and transactions whose processing has ended
Settled == Cardinality(DOMAIN routed) + direct_calls - InFlight

C22_OneAtATimeInOrder ==
    [][/\ DOMAIN routed' # DOMAIN routed =>
            /\ rpc = "loop"
            /\ DOMAIN routed' = DOMAIN routed \cup {new_emails[ridx]}
            /\ ridx' = ridx + 1
            /\ \A k \in 1..(ridx - 1) : new_emails[k] \in processed_seq_nums
            /\ \A k \in DOMAIN transactions' \ DOMAIN transactions :
                  transactions'[k].email_seq_num = new_emails[ridx]
       /\ CheckPendingReviews =>
            /\ ridx > Len(new_emails)
            /\ \A k \in DOMAIN new_emails : new_emails[k] \in processed_seq_nums
      ]_vars

C22_CycleOfTwoDone ==
    /\ rpc = "idle"
    /\ Len(new_emails) = 2
    /\ DOMAIN routed = {1, 2}
    /\ cycles = 1

\* C35 as stated: a client constructed with a token refresh that succeeded
\* and a backend that answers the connection test is available, and the
\* workflow it is then asked for is not refused.
C35_AvailableAfterInit ==
    (/\ api_call.made
     /\ api_call.refresh_ok
     /\ api_call.answers[1] = "ok")
        => /\ is_available
           /\ \A k \in DOMAIN zresult.errors :
                 zresult.errors[k].cause # "Unavailable"

\* C33 as stated: no e-mail is handed to process_email more than once in
\* a run, and process_email has been called once per e-mail handed over.
C33_HandedAtMostOnce ==
    /\ \A i \in DOMAIN handed, j \in DOMAIN handed :
          i # j => handed[i] # handed[j]
    /\ stats.emails_processed = Len(handed)

\* C36 as stated: an unread e-mail that fetch_unread_emails returned and
\* that was never handed to process_email is handed to it when the loop
\* comes to it, whatever sequence number it has by then.
C36_FetchedEmailHanded ==
    [][(/\ rpc = "loop" /\ ridx <= Len(new_emails)
        /\ ridx' = ridx + 1
        /\ \A i \in DOMAIN handed : handed[i] # MessageAt(CurrentEmail))
        => /\ handed' = Append(handed, MessageAt(CurrentEmail))
           /\ stats'.emails_processed = stats.emails_processed + 1
      ]_vars

\* C23: a stop signal takes effect at a cycle boundary only: the step that
\* ends the run loop is taken with no transaction in progress, every
\* workflow handed to the accounting client having run to its end and its
\* result having been handled.
C23_StopsAtCycleBoundary ==
    [][(rpc' = "stopped" /\ rpc # "stopped") => InFlight = 0]_vars

C10_ResolvedReachesCompleteState ==
    \A id \in review_checked :
        /\ id \notin DOMAIN pending_reviews
        /\ \E k \in DOMAIN transactions :
              /\ transactions[k].processing_status = "airtable_complete"
              /\ transactions[k].type = transactions[id].type
              /\ transactions[k].header = transactions[id].header
        /\ quantity_writes # {}

\* the gate's result on the record of a pending review as the store holds it
GateOnRecord(id) == ValidateCompleteness(RecordData(transactions[id]))

\* C11: a review pass re-runs the gate on the record of every pending
\* review; for a record still incomplete the posting workflow is not
\* entered and the entry stays in the queue with its missing-field list
\* updated to the gate's result.
C11_StillIncompleteListUpdated ==
    [][ReviewPass =>
        \A id \in DOMAIN pending_reviews :
            GateOnRecord(id).completeness = "INCOMPLETE"
                => /\ zoho_calls' = zoho_calls
                   /\ id \in DOMAIN pending_reviews'
                   /\ pending_reviews'[id].missing_fields
                        = GateOnRecord(id).missing_fields]_vars

\* C12: _process_incomplete_transaction enters the id of the record the
\* store returned in the review queue, and an entry leaves the queue only
\* in a step at whose start its record no longer requires review and
\* passes the gate; otherwise it is still there after the step.
C12_PendingReviewLifecycle ==
    [][/\ (IncompleteTransactionArrives /\ Len(transactions') > Len(transactions))
            => Len(transactions') \in DOMAIN pending_reviews'
       /\ \A id \in DOMAIN pending_reviews :
            id \notin DOMAIN pending_reviews'
                => /\ ~transactions[id].requires_review
                   /\ GateOnRecord(id).completeness = "COMPLETE"]_vars

\* an entry still waiting for its reviewer that was in the queue when a
\* review pass looked at a later entry
C12_PendingAfterPass ==
    \E id \in DOMAIN pending_reviews :
        /\ transactions[id].requires_review
        /\ \E j \in review_checked : j > id

\* C15: a connection error or timeout on a backend request leaves
\* is_available false, nothing sets it back to true, and a complete
\* transaction handled while it is false is saved to the transaction log,
\* is not handed to the posting workflow, and is flagged by the warning
\* notification 'Zoho Unavailable'.
C15_UnavailableForTheRun ==
    [][/\ (\E k \in (Len(http_log) + 1)..Len(http_log') :
              http_log'[k].response = "network") => ~is_available'
       /\ ~is_available => ~is_available'
       /\ (LaterCompleteTransaction /\ ~is_available)
            => /\ Len(transactions') = Len(transactions) + 1
               /\ transactions'[Len(transactions')].processing_status
                    = "airtable_complete"
               /\ zoho_calls' = zoho_calls
               /\ notifications' = Append(notifications, "Zoho Unavailable")]_vars

\* the client answered requests, then lost its availability, and a
\* complete transaction handled afterwards was saved and flagged
C15_SavedAndFlagged ==
    /\ cache # EmptyCache
    /\ ~is_available
    /\ transactions # <<>>
    /\ zoho_calls = <<>>
    /\ notifications = <<"Zoho Unavailable">>

\* C16: when the posting workflow of a transaction has failed, the status
\* persisted on its record becomes a posting-failed status; it is never
\* left as it was before the posting was attempted.
C16_FailedPostingChangesStatus ==
    [][(HandleZohoResult /\ ~zresult.success)
        => /\ transactions'[Len(transactions)].processing_status
                \in {"zoho_sync_failed", "zoho_failed"}
           /\ transactions'[Len(transactions)].processing_status
                # transactions[Len(transactions)].processing_status]_vars

\* a record of the transaction log but for its processing status
RecordContent(record) == [record EXCEPT !.processing_status = None]

\* C17: no step of a posting workflow, of its compensation, or of the
\* handling of its failure changes an inventory quantity or the content of
\* a record of the transaction log: the ledger update is not rolled back.
C17_NoLedgerRollback ==
    [][(zpc # "idle" /\ ~(zpc = "done" /\ zresult.success))
        => /\ inventory' = inventory
           /\ Len(transactions') = Len(transactions)
           /\ \A k \in DOMAIN transactions :
                RecordContent(transactions'[k]) = RecordContent(transactions[k])]_vars

\* a workflow that failed after its order was created and ran its
\* compensation, the purchase's quantity and record still in the ledger
C17_FailedWithLedgerKept ==
    /\ zpc = "done"
    /\ ~zresult.success
    /\ DeleteRequests # <<>>
    /\ transactions # <<>>
    /\ \E k \in DOMAIN inventory : inventory[k].quantity > 0

RECURSIVE SaleValue(_)
\* the sum of quantity * sale_price over line items
SaleValue(items) ==
    IF items = <<>> THEN 0
    ELSE Head(items).quantity * Head(items).sale_price + SaleValue(Tail(items))

\* C18: the result of the posting workflow of a sale whose items were
\* validated carries as revenue the sum of quantity * sale_price over the
\* line items of the transaction as the ledger saved it, whatever becomes
\* of the invoice and shipment steps.
C18_RevenueOfOriginalItems ==
    (/\ zpc = "done"
     /\ zdata.type = "sale"
     /\ Len(zresult.workflow_steps) >= 2)
        => zresult.revenue = SaleValue(transactions[Len(transactions)].items)


(***************************************************************************)
(* Specifications.                                                         *)
(***************************************************************************)
\* The client when its first workflow is requested.  is_available is the
\* flag that process_complete_data and _make_api_request read; both of its
\* values are covered.
PostingInit ==
    /\ is_available \in BOOLEAN
    /\ config \in FeatureFlags
    /\ cache = EmptyCache
    /\ zpc = "idle"
    /\ zdata = NoData
    /\ zidx = 1
    /\ zlocal = EmptyLocal
    /\ zresult = EmptyResult
    /\ http_log = <<>>
    /\ create_calls = <<>>
    /\ n401 = 0
    /\ zruns = 0

\* C39: a step taken while is_available is false sends no request to the
\* backend, whatever the method: the log of requests gains nothing (it is
\* only emptied, at the start and on the return of process_complete_data),
\* and the DELETE calls of the compensation are refused like the others.
C39_NoRequestWhileUnavailable ==
    [][~is_available =>
          /\ http_log' \in {http_log, <<>>}
          /\ create_calls' = create_calls]_vars

\* reached: a workflow whose order was created, then failed on an answer
\* that cleared is_available; the compensation ran and sent no DELETE
C39_CompensationRefused ==
    /\ zpc = "done"
    /\ ~is_available
    /\ zresult.order_id # None
    /\ ~zresult.success
    /\ \A k \in 1..Len(http_log) : http_log[k].method # "DELETE"
    /\ http_log # <<>>
    /\ IsOSError(ExceptionOf(http_log[Len(http_log)].response))

\* the result keys of the optional steps the settings enable for a type
EnabledIdFields(type, flags) ==
    IF type = "purchase"
    THEN (IF flags.auto_create_bills THEN {"bill_id"} ELSE {})
    ELSE (IF flags.auto_create_invoices THEN {"invoice_id"} ELSE {})
         \cup (IF flags.auto_create_shipments THEN {"shipment_id"} ELSE {})

\* C38: every result process_complete_data returns with success true holds
\* the order id and the id of every enabled optional step and no error, and
\* every result it returns with success false holds at least one error.
C38_ResultConsistent ==
    zpc = "done" =>
        IF zresult.success
        THEN /\ zresult.order_id # None
             /\ \A f \in EnabledIdFields(zdata.type, config) : zresult[f] # None
             /\ zresult.errors = <<>>
        ELSE zresult.errors # <<>>

PostingNext ==
    \/ ProcessCompleteData
    \/ FindOrCreateContact
    \/ EnsureItemExists
    \/ CheckStock
    \/ ItemsValidated
    \/ CreateOrder
    \/ ReceiveOrder
    \/ CreateBill
    \/ CreateInvoice
    \/ CreateShipment
    \/ CalculateCogs
    \/ CleanupFailed
    \/ WorkflowReturn

PostingSpecInit ==
    PostingInit /\ LedgerAtRest /\ GateAtRest /\ AppAtRest /\ AuxAtRest

SpecPosting == PostingSpecInit /\ [][PostingNext]_vars

LedgerInit ==
    LedgerAtRest /\ PostingAtRest /\ GateAtRest /\ AppAtRest /\ AuxAtRest

LedgerNext ==
    \/ ProcessTransaction
    \/ ProcessItemInventory
    \/ CreateTransactionRecord
    \/ LedgerReturn

SpecLedger == LedgerInit /\ [][LedgerNext]_vars

GateInit ==
    GateStart /\ LedgerAtRest /\ PostingAtRest /\ AppAtRest /\ AuxAtRest

GateNext ==
    \/ RunGate
    \/ SupplyField
    \/ SupplyAllFields

SpecGate == GateInit /\ [][GateNext]_vars

\* calls of _make_api_request, one after the other
RequestNext == IssueApiRequest

\* the client before the first call, with either value of the flag that
\* _make_api_request reads
RequestInit ==
    /\ is_available \in BOOLEAN
    /\ config = [auto_receive_po |-> TRUE, auto_create_bills |-> TRUE,
                 auto_create_invoices |-> TRUE, auto_create_shipments |-> TRUE]
    /\ cache = EmptyCache
    /\ zpc = "idle"
    /\ zdata = NoData
    /\ zidx = 1
    /\ zlocal = EmptyLocal
    /\ zresult = EmptyResult
    /\ http_log = <<>>
    /\ create_calls = <<>>
    /\ n401 = 0
    /\ zruns = 0
    /\ LedgerAtRest /\ GateAtRest /\ AppAtRest /\ AuxAtRest

SpecRequest == RequestInit /\ [][RequestNext]_vars

\* the whole application from its construction on
Init ==
    AppAtRest /\ LedgerAtRest /\ PostingAtRest /\ GateAtRest /\ AuxAtRest

Next ==
    \/ EmailArrives
    \/ FetchUnreadEmails
    \/ HandleEmail
    \/ CheckPendingReviews

Spec == Init /\ [][Next]_vars

\* the first call of process_complete_data on the constructed client
ConstructedProcessCompleteData ==
    /\ api_call.made
    /\ zruns = 0
    /\ ProcessCompleteData

\* the client as constructed, with either value of is_available, and the
\* ledger store at rest
HandOverInit == RequestInit

\* _process_complete_transaction, its call of process_transaction run step
\* by step
HandOverNext ==
    \/ ProcessTransaction
    \/ ProcessItemInventory
    \/ CreateTransactionRecord
    \/ HandOver
    \/ HandlerReturn

SpecHandOver == HandOverInit /\ [][HandOverNext]_vars

\* the construction of the accounting client and its first workflow
ConstructNext ==
    \/ Construct
    \/ ConstructedProcessCompleteData
    \/ WorkflowReturn

SpecConstruct == Init /\ [][ConstructNext]_vars

\* calls of _send_embed, one after the other
NotifierNext == SendNotification

SpecNotifier == Init /\ [][NotifierNext]_vars

\* the application and the owner of the mailbox, who removes e-mails
MailboxNext ==
    \/ Next
    \/ Expunge

SpecMailbox == Init /\ [][MailboxNext]_vars

\* the transaction handlers and the review queue, called directly
ReviewNext ==
    \/ CompleteTransactionArrives
    \/ IncompleteTransactionArrives
    \/ HumanResolves
    \/ HumanFillsField
    \/ ReviewPass

SpecReview == Init /\ [][ReviewNext]_vars

\* the accounting client running workflows, and complete transactions
\* handled between them
DegradedNext ==
    \/ PostingNext
    \/ LaterCompleteTransaction

SpecDegraded == PostingSpecInit /\ [][DegradedNext]_vars

\* complete transactions from the ledger update to the end of the posting
\* workflow
EndToEndNext ==
    \/ SaveCompleteTransaction
    \/ ExecuteZohoWorkflow
    \/ FindOrCreateContact
    \/ EnsureItemExists
    \/ CheckStock
    \/ ItemsValidated
    \/ CreateOrder
    \/ ReceiveOrder
    \/ CreateBill
    \/ CreateInvoice
    \/ CreateShipment
    \/ CalculateCogs
    \/ CleanupFailed
    \/ HandleZohoResult

SpecEndToEnd == PostingSpecInit /\ [][EndToEndNext]_vars

\* complete transactions handled end to end in the loop of run, which a
\* stop signal may end
InterruptedNext ==
    \/ RunningSaveCompleteTransaction
    \/ RunningExecuteZohoWorkflow
    \/ FindOrCreateContact
    \/ EnsureItemExists
    \/ CheckStock
    \/ ItemsValidated
    \/ CreateOrder
    \/ ReceiveOrder
    \/ CreateBill
    \/ CreateInvoice
    \/ CreateShipment
    \/ CalculateCogs
    \/ CleanupFailed
    \/ HandleZohoResult
    \/ KeyboardInterruptArrives

SpecInterrupted == PostingSpecInit /\ [][InterruptedNext]_vars

\* one run of the application: e-mails through run_once and transactions
\* through the handlers, each to its end, with the workflows it starts
AnnouncedNext ==
    \/ AnnouncedEmailArrives
    \/ AnnouncedFetch
    \/ AnnouncedHandleEmail
    \/ AnnouncedCheckPendingReviews
    \/ AnnouncedComplete
    \/ AnnouncedIncomplete
    \/ CompleteTransactionLedgerFails
    \/ ExecuteZohoWorkflow
    \/ FindOrCreateContact
    \/ EnsureItemExists
    \/ CheckStock
    \/ ItemsValidated
    \/ CreateOrder
    \/ ReceiveOrder
    \/ CreateBill
    \/ CreateInvoice
    \/ CreateShipment
    \/ CalculateCogs
    \/ CleanupFailed
    \/ HandleZohoResult

SpecAnnounced == PostingSpecInit /\ [][AnnouncedNext]_vars

====
